---- MODULE Spec2Model ----
(***************************************************************************)
(* TradeVault live strategy signal engine (src/rl/live-signals.js).        *)
(*                                                                         *)
(* The engine is a single-threaded Node.js object.  Every action below is  *)
(* one run-to-completion callback of the event loop: a viewer message, the *)
(* completion of the seed fetch, an event of an upstream WebSocket (open,  *)
(* message, close) or the firing of the 5 s reconnect timer.               *)
(*                                                                         *)
(* The handlers are written as operators over an engine record e (the      *)
(* fields of `this` plus the callbacks still pending), so that a handler   *)
(* that calls another one (the timer calls subscribe, the message handler  *)
(* calls _processKline, everything calls broadcast) is the composition of  *)
(* the operators.  An action reads the record from the variables, applies  *)
(* the handler and commits the result.                                     *)
(***************************************************************************)
EXTENDS Integers, Sequences, FiniteSets, TLC

VARIABLES
    binanceSockets,     \* this.binanceSockets: symbol -> upstream socket (feed id)
    candles,            \* this.candles: symbol -> sequence of candles
    activeStrategies,   \* this.activeStrategies: symbol -> list of strategy names
    lastSignals,        \* this.lastSignals: symbol -> (strategy -> signal)
    feeds,              \* the pending callbacks of each subscribe() call: feed id -> [sym, stage]
    running,            \* FALSE once an uncaught exception has ended the process
    out,                \* the events handed to broadcast() by the last callback
    lastReq,            \* history: symbol -> the last call made for it ("subscribe"/"unsubscribe")
    emitted,            \* history: event symbol -> (strategy -> action of the last 'signal' event)
    lastOp,             \* history: the callback that ran last
    nTicks,             \* history: number of upstream messages delivered so far
    clients,            \* this.clients: registered viewer session -> its readyState
    sent,               \* what the last callback wrote to each registered session
    inbox,              \* history: session -> the tick events written to it, in order
    db,                 \* the journal's database (pool) and the uploads directory
    res                 \* the journal's last request and the response to it

vars == <<binanceSockets, candles, activeStrategies, lastSignals, feeds, running,
          out, lastReq, emitted, lastOp, nTicks, clients, sent, inbox, db, res>>

(***************************************************************************)
(* Bounds of the exploration.                                              *)
(***************************************************************************)
MaxFeeds == 2        \* subscribe() calls whose callbacks are pending at one time
MaxTicks == 2        \* upstream messages delivered in one run of Spec
SeedBars == 49       \* rows of the seed the REST endpoint returns in Spec
BasePrice == 100     \* the flat price of the seed
PriceStep == 5       \* a tick closes at BasePrice or PriceStep above it
BaseVolume == 10
ShortSeed == 2       \* rows of the seed in SpecFeeds
RollBars == 502      \* the stream of SpecRoll ends with the bar of this open time
MaxViewers == 2      \* viewer sessions connected at one time
LowStrength == 10    \* the two strengths of the evaluator outputs of SpecDedup
HighStrength == 90
MaxHistory == 51     \* bars of the longest history the evaluators are run on
WickSize == 60       \* the distance of a bar's high or low from its close
MaxUsers == 2        \* users of the journal
MaxTrades == 2       \* trades ever inserted
MaxExecutions == 1   \* execution-log rows ever inserted
MaxScreenshots == 1  \* screenshot files ever uploaded
MaxQuantity == 1     \* the quantities of an execution

(***************************************************************************)
(* Program constants.                                                      *)
(***************************************************************************)
KeepLast == 500      \* if (candles.length > 500) candles.shift()
MinEvalBars == 50    \* if (candle.closed && candles.length >= 50)
BreakoutBars == 21   \* if (candles.length < 21) return null; slice(-21, -1)
SeedLimit == 200     \* ...&interval=1m&limit=200
SmaShort == 10       \* this._sma(closes, 10)
SmaLong == 30        \* this._sma(closes, 30)
RsiPeriod == 14      \* this._rsi(closes, 14)
HftBars == 30        \* if (candles.length < 30) return null; slice(-30)
TickBars == 10       \* recent.slice(-10)
RegressionBars == 50 \* if (candles.length < 50) return null; slice(-50)
RegressionShort == 20 \* closes.slice(-20)

(***************************************************************************)
(* JavaScript objects used as maps: a function whose domain is the set of  *)
(* keys present.  `delete o[k]` restricts the domain.                      *)
(***************************************************************************)
EmptyObj == <<>>
Has(o, k) == k \in DOMAIN o
Put(o, k, v) == [x \in (DOMAIN o) \cup {k} |-> IF x = k THEN v ELSE o[x]]
Del(o, k) == [x \in (DOMAIN o) \ {k} |-> o[x]]

(***************************************************************************)
(* Strings are sequences of characters, so that toLowerCase, toUpperCase   *)
(* and replace('/', '') are computed and not assumed.                      *)
(***************************************************************************)
UpperChars == <<"B", "C", "D", "S", "T", "U">>
LowerChars == <<"b", "c", "d", "s", "t", "u">>

CharIndex(chars, c) == CHOOSE j \in 1..Len(chars) : chars[j] = c

\* The string s with every character of `from` replaced by the one of `to`.
MapChars(s, from, to) ==
    LET m == [i \in 1..Len(s) |->
                 IF \E j \in 1..Len(from) : from[j] = s[i]
                 THEN to[CharIndex(from, s[i])] ELSE s[i]]
    IN SubSeq(m, 1, Len(s))

toLowerCase(s) == MapChars(s, UpperChars, LowerChars)

toUpperCase(s) == MapChars(s, LowerChars, UpperChars)

\* String.prototype.replace with a string pattern: the FIRST occurrence only.
replaceSlash(s) ==
    IF \A i \in 1..Len(s) : s[i] # "/" THEN s
    ELSE LET i == CHOOSE k \in 1..Len(s) :
                      s[k] = "/" /\ \A j \in 1..(k - 1) : s[j] # "/"
         IN SubSeq(s, 1, i - 1) \o SubSeq(s, i + 1, Len(s))

\* const sym = symbol.toLowerCase().replace('/', '')
Normalize(symbol) == replaceSlash(toLowerCase(symbol))

(***************************************************************************)
(* Inputs.                                                                 *)
(***************************************************************************)
RawSymbols ==
    { <<"B", "T", "C", "/", "U", "S", "D", "T">>,
      <<"b", "t", "c", "u", "s", "d", "t">> }

\* The second symbol has two separators: replace('/', '') leaves one of them.
SlashSymbols ==
    { <<"B", "T", "C", "/", "U", "S", "D", "T">>,
      <<"B", "T", "C", "/", "/", "U", "S", "D", "T">> }

\* 'macd' is no strategy of _runStrategy: it takes the switch's default.
StrategyLists == { <<"breakout">>, <<"macd", "breakout">> }

\* A row of the REST answer, [openTime, open, high, low, close, volume].
FlatRows(n) ==
    [i \in 1..n |-> <<i, BasePrice, BasePrice, BasePrice, BasePrice, BaseVolume>>]

\* A stream message's k payload.
Kline(t, c, x) ==
    [t |-> t, o |-> BasePrice, h |-> c, l |-> BasePrice, c |-> c,
     v |-> BaseVolume, x |-> x]

Klines ==
    { Kline(t, c, x) : t \in {SeedBars, SeedBars + 1},
                       c \in {BasePrice, BasePrice + PriceStep},
                       x \in BOOLEAN }

(***************************************************************************)
(* Feeds.  A subscribe() call that passes its guard leaves a chain of      *)
(* callbacks behind: the fetch's then(), the socket's open/message/close   *)
(* handlers, the reconnect timer.  A feed is that chain, and the socket it *)
(* creates is identified with it.                                          *)
(*   fetching    the seed request is in flight                             *)
(*   connecting  new WebSocket(wsUrl) was called, no event yet             *)
(*   open        'open' was emitted                                        *)
(*   closing     close() was called on the open socket                     *)
(*   timer       'close' was emitted, the setTimeout is pending            *)
(***************************************************************************)
FeedIds == 1..MaxFeeds
FreeFeed == [sym |-> <<>>, stage |-> "free"]
HasFreeFeed(e) == \E f \in FeedIds : e.feeds[f].stage = "free"
FreshFeed(e) ==
    CHOOSE f \in FeedIds :
        /\ e.feeds[f].stage = "free"
        /\ \A g \in FeedIds : e.feeds[g].stage = "free" => f <= g

(***************************************************************************)
(* broadcast(data): the event is handed to every open viewer session.      *)
(***************************************************************************)
\* A broadcast that writes to every registered session, open or not.
broadcastToAll(e, data) ==
    [e EXCEPT !.out = Append(@, data),
              !.sent = [c \in DOMAIN e.clients |-> Append(e.sent[c], data)]]

broadcast(e, data) ==
    [e EXCEPT !.out = Append(@, data),
              !.sent = [c \in DOMAIN e.clients |->
                           IF e.clients[c] = "open" THEN Append(e.sent[c], data)
                           ELSE e.sent[c]]]

(***************************************************************************)
(* Strategies.  A signal is [action, strength]; the strength is the        *)
(* fraction <<numerator, denominator>>.  The reason and level texts of a   *)
(* signal are left out.                                                    *)
(***************************************************************************)
Null == [action |-> "none", strength |-> <<0, 1>>]

MaxOf(S) == CHOOSE m \in S : \A x \in S : x <= m
MinOf(S) == CHOOSE m \in S : \A x \in S : m <= x

\* The strength of a breakout without Math.min's cap: the quotient as it
\* is, and over a zero range the excess itself.
BreakoutStrengthUncapped(over, range) ==
    <<over * 200, IF range = 0 THEN 1 ELSE range>>

\* Math.min((over / range) * 200, 100), with over > 0; over / 0 is Infinity.
BreakoutStrength(over, range) ==
    IF range = 0 \/ over * 200 >= 100 * range THEN <<100, 1>>
    ELSE <<over * 200, range>>

\* The breakout evaluator without its length guard: it takes the bars that
\* are there, up to 20 before the latest.
breakoutStrategyAnyLength(cs) ==
    IF Len(cs) < 2 THEN Null
    ELSE LET n == Len(cs)
             recent == SubSeq(cs, IF n > BreakoutBars THEN n - BreakoutBars + 1 ELSE 1,
                              n - 1)
             current == cs[n]
             high20 == MaxOf({recent[i].high : i \in 1..Len(recent)})
             low20 == MinOf({recent[i].low : i \in 1..Len(recent)})
             range == high20 - low20
         IN IF current.close > high20
            THEN [action |-> "BUY",
                  strength |-> BreakoutStrength(current.close - high20, range)]
            ELSE IF current.close < low20
            THEN [action |-> "SELL",
                  strength |-> BreakoutStrength(low20 - current.close, range)]
            ELSE [action |-> "HOLD", strength |-> <<10, 1>>]

\* The breakout evaluator with inclusive comparisons: a close that touches
\* the prior high or low already breaks out.
breakoutStrategyInclusive(cs) ==
    IF Len(cs) < BreakoutBars THEN Null
    ELSE LET n == Len(cs)
             recent == SubSeq(cs, n - BreakoutBars + 1, n - 1)
             current == cs[n]
             high20 == MaxOf({recent[i].high : i \in 1..Len(recent)})
             low20 == MinOf({recent[i].low : i \in 1..Len(recent)})
             range == high20 - low20
         IN IF current.close >= high20
            THEN [action |-> "BUY",
                  strength |-> BreakoutStrength(current.close - high20, range)]
            ELSE IF current.close <= low20
            THEN [action |-> "SELL",
                  strength |-> BreakoutStrength(low20 - current.close, range)]
            ELSE [action |-> "HOLD", strength |-> <<10, 1>>]

breakoutStrategy(cs) ==
    IF Len(cs) < BreakoutBars THEN Null
    ELSE LET n == Len(cs)
             recent == SubSeq(cs, n - BreakoutBars + 1, n - 1)
             current == cs[n]
             high20 == MaxOf({recent[i].high : i \in 1..Len(recent)})
             low20 == MinOf({recent[i].low : i \in 1..Len(recent)})
             range == high20 - low20
         IN IF current.close > high20
            THEN [action |-> "BUY",
                  strength |-> BreakoutStrength(current.close - high20, range)]
            ELSE IF current.close < low20
            THEN [action |-> "SELL",
                  strength |-> BreakoutStrength(low20 - current.close, range)]
            ELSE [action |-> "HOLD", strength |-> <<10, 1>>]

\* The sum of the `period` closes that end with entry `last`: _sma's
\* values.slice(i - period + 1, i + 1).reduce(...).
SumCloses(cs, last, period) ==
    LET RECURSIVE Sum(_)
        Sum(i) == IF i > last THEN 0 ELSE cs[i].close + Sum(i + 1)
    IN Sum(last - period + 1)

\* Math.min(x * 1000, 100) for the fraction x = num / den, num > 0, den > 0.
CrossStrength(num, den) ==
    IF num * 1000 >= 100 * den THEN <<100, 1>> ELSE <<num * 1000, den>>

\* The trend-cross evaluator that takes a crossing only from strictly the
\* other side: averages that were equal on the bar before do not cross.
smaCrossoverFromStrictSide(cs) ==
    IF Len(cs) < SmaLong + 1 THEN Null
    ELSE LET n == Len(cs)
             curr10 == 3 * SumCloses(cs, n, SmaShort)
             prev10 == 3 * SumCloses(cs, n - 1, SmaShort)
             curr30 == SumCloses(cs, n, SmaLong)
             prev30 == SumCloses(cs, n - 1, SmaLong)
         IN IF prev10 < prev30 /\ curr10 > curr30
            THEN [action |-> "BUY", strength |-> CrossStrength(curr10 - curr30, curr30)]
            ELSE IF prev10 > prev30 /\ curr10 < curr30
            THEN [action |-> "SELL", strength |-> CrossStrength(curr30 - curr10, curr10)]
            ELSE IF curr10 * 1000 > curr30 * 1002
            THEN [action |-> "BUY", strength |-> <<40, 1>>]
            ELSE IF curr10 * 1000 < curr30 * 998
            THEN [action |-> "SELL", strength |-> <<40, 1>>]
            ELSE [action |-> "HOLD", strength |-> <<10, 1>>]

\* _smaCrossover(candles).  With S10 and S30 the window sums, the averages
\* are S10 / 10 and S30 / 30: they compare as 3 * S10 and S30 do (a
\* correctly rounded quotient keeps the order of integer sums of this
\* size), and curr10 > curr30 * 1.002 as 3000 * S10 > 1002 * S30.
smaCrossover(cs) ==
    IF Len(cs) < SmaLong + 1 THEN Null
    ELSE LET n == Len(cs)
             curr10 == 3 * SumCloses(cs, n, SmaShort)
             prev10 == 3 * SumCloses(cs, n - 1, SmaShort)
             curr30 == SumCloses(cs, n, SmaLong)
             prev30 == SumCloses(cs, n - 1, SmaLong)
         IN IF prev10 <= prev30 /\ curr10 > curr30
            THEN [action |-> "BUY", strength |-> CrossStrength(curr10 - curr30, curr30)]
            ELSE IF prev10 >= prev30 /\ curr10 < curr30
            THEN [action |-> "SELL", strength |-> CrossStrength(curr30 - curr10, curr10)]
            ELSE IF curr10 * 1000 > curr30 * 1002
            THEN [action |-> "BUY", strength |-> <<40, 1>>]
            ELSE IF curr10 * 1000 < curr30 * 998
            THEN [action |-> "SELL", strength |-> <<40, 1>>]
            ELSE [action |-> "HOLD", strength |-> <<10, 1>>]

(***************************************************************************)
(* Numbers of the indicators.  Prices and volumes are integers; a quotient *)
(* is the exact fraction <<numerator, denominator>>, denominator > 0, in   *)
(* lowest terms.  A double differs from it by rounding only, which matters *)
(* where a value sits exactly on a threshold.                              *)
(***************************************************************************)
Abs(x) == IF x < 0 THEN -x ELSE x

RECURSIVE Gcd(_, _)
Gcd(a, b) == IF b = 0 THEN a ELSE Gcd(b, a % b)

Rat(n, d) == LET g == Gcd(Abs(n), d) IN <<n \div g, d \div g>>
RInt(n) == <<n, 1>>
RAdd(x, y) ==
    LET g == Gcd(x[2], y[2])
    IN Rat(x[1] * (y[2] \div g) + y[1] * (x[2] \div g), (x[2] \div g) * y[2])
RNeg(x) == <<-x[1], x[2]>>
RSub(x, y) == RAdd(x, RNeg(y))
RMul(x, y) ==
    LET a == Rat(x[1], y[2])
        b == Rat(y[1], x[2])
    IN <<a[1] * b[1], a[2] * b[2]>>
\* x / y for y # 0.
RDiv(x, y) == RMul(x, IF y[1] > 0 THEN <<y[2], y[1]>> ELSE <<-y[2], -y[1]>>)
RLess(x, y) == RSub(x, y)[1] < 0
RLeq(x, y) == RSub(x, y)[1] <= 0
RAbs(x) == <<Abs(x[1]), x[2]>>
RMin(x, y) == IF RLess(x, y) THEN x ELSE y

\* The element of a one-element set: Only({F(i + 1, next) : next \in {v}})
\* is F(i + 1, v), with the loop's variables v computed before the next
\* iteration starts.
Only(S) == CHOOSE x \in S : TRUE

\* candles.map(c => c.close)
Closes(cs) == [i \in 1..Len(cs) |-> cs[i].close]

\* values.reduce((a, b) => a + b, 0)
SumOf(values) ==
    LET RECURSIVE Sum(_)
        Sum(i) == IF i > Len(values) THEN 0 ELSE values[i] + Sum(i + 1)
    IN Sum(1)

\* array.slice(-k) of an array of at least k entries.
LastOf(a, k) == SubSeq(a, Len(a) - k + 1, Len(a))

\* _rsi's null.
NoValue == <<>>

\* An RSI that is neutral, 50, when there are neither gains nor losses,
\* and 100 only when there are gains and no losses.
rsiNeutralWhenFlat(values, period) ==
    IF Len(values) < period + 1 THEN NoValue
    ELSE LET n == Len(values)
             Diff(i) == values[i + 1] - values[i]
             RECURSIVE Gains(_)
             Gains(i) == IF i > period THEN 0
                         ELSE (IF Diff(i) >= 0 THEN Diff(i) ELSE 0) + Gains(i + 1)
             RECURSIVE Losses(_)
             Losses(i) == IF i > period THEN 0
                          ELSE (IF Diff(i) >= 0 THEN 0 ELSE -Diff(i)) + Losses(i + 1)
             RECURSIVE Smooth(_, _)
             Smooth(i, avg) ==
                 IF i > n - 1 THEN avg
                 ELSE LET avgGain ==
                              RDiv(RAdd(RMul(avg[1], RInt(period - 1)),
                                        RInt(IF Diff(i) >= 0 THEN Diff(i) ELSE 0)),
                                   RInt(period))
                          avgLoss ==
                              RDiv(RAdd(RMul(avg[2], RInt(period - 1)),
                                        RInt(IF Diff(i) < 0 THEN -Diff(i) ELSE 0)),
                                   RInt(period))
                      IN Only({Smooth(i + 1, next) : next \in {<<avgGain, avgLoss>>}})
             avg == Smooth(period + 1, <<Rat(Gains(1), period), Rat(Losses(1), period)>>)
         IN IF avg[2][1] = 0 /\ avg[1][1] = 0 THEN RInt(50)
            ELSE IF avg[2][1] = 0 THEN RInt(100)
            ELSE RSub(RInt(100),
                      RDiv(RInt(100), RAdd(RInt(1), RDiv(avg[1], avg[2]))))

\* _rsi(values, period).  The source's index i is 0-based: its
\* values[i] - values[i - 1] is values[i + 1] - values[i] here.
rsi(values, period) ==
    IF Len(values) < period + 1 THEN NoValue
    ELSE LET n == Len(values)
             Diff(i) == values[i + 1] - values[i]
             RECURSIVE Gains(_)
             Gains(i) == IF i > period THEN 0
                         ELSE (IF Diff(i) >= 0 THEN Diff(i) ELSE 0) + Gains(i + 1)
             RECURSIVE Losses(_)
             Losses(i) == IF i > period THEN 0
                          ELSE (IF Diff(i) >= 0 THEN 0 ELSE -Diff(i)) + Losses(i + 1)
             RECURSIVE Smooth(_, _)
             Smooth(i, avg) ==
                 IF i > n - 1 THEN avg
                 ELSE LET avgGain ==
                              RDiv(RAdd(RMul(avg[1], RInt(period - 1)),
                                        RInt(IF Diff(i) >= 0 THEN Diff(i) ELSE 0)),
                                   RInt(period))
                          avgLoss ==
                              RDiv(RAdd(RMul(avg[2], RInt(period - 1)),
                                        RInt(IF Diff(i) < 0 THEN -Diff(i) ELSE 0)),
                                   RInt(period))
                      IN Only({Smooth(i + 1, next) : next \in {<<avgGain, avgLoss>>}})
             avg == Smooth(period + 1, <<Rat(Gains(1), period), Rat(Losses(1), period)>>)
         IN IF avg[2][1] = 0 THEN RInt(100)
            ELSE RSub(RInt(100),
                      RDiv(RInt(100), RAdd(RInt(1), RDiv(avg[1], avg[2]))))

\* An RSI evaluator that follows the momentum: a high RSI buys and a low
\* one sells.
rsiStrategyFollowing(cs) ==
    LET r == rsi(Closes(cs), RsiPeriod)
    IN IF r = NoValue THEN Null
       ELSE IF RLeq(r, RInt(25)) THEN [action |-> "SELL", strength |-> <<90, 1>>]
       ELSE IF RLeq(r, RInt(30)) THEN [action |-> "SELL", strength |-> <<70, 1>>]
       ELSE IF RLeq(RInt(75), r) THEN [action |-> "BUY", strength |-> <<90, 1>>]
       ELSE IF RLeq(RInt(70), r) THEN [action |-> "BUY", strength |-> <<70, 1>>]
       ELSE [action |-> "HOLD", strength |-> <<10, 1>>]

\* _rsiStrategy(candles)
rsiStrategy(cs) ==
    LET r == rsi(Closes(cs), RsiPeriod)
    IN IF r = NoValue THEN Null
       ELSE IF RLeq(r, RInt(25)) THEN [action |-> "BUY", strength |-> <<90, 1>>]
       ELSE IF RLeq(r, RInt(30)) THEN [action |-> "BUY", strength |-> <<70, 1>>]
       ELSE IF RLeq(RInt(75), r) THEN [action |-> "SELL", strength |-> <<90, 1>>]
       ELSE IF RLeq(RInt(70), r) THEN [action |-> "SELL", strength |-> <<70, 1>>]
       ELSE [action |-> "HOLD", strength |-> <<10, 1>>]

\* _vwap(candles), for candles with positive prices.
vwap(cs) ==
    LET RECURSIVE CumPV(_, _)
        CumPV(i, cumPV) ==
            IF i > Len(cs) THEN cumPV
            ELSE LET typicalPrice == Rat(cs[i].high + cs[i].low + cs[i].close, 3)
                 IN Only({CumPV(i + 1, next) :
                             next \in {RAdd(cumPV, RMul(typicalPrice,
                                                        RInt(cs[i].volume)))}})
        cumVol == SumOf([i \in 1..Len(cs) |-> cs[i].volume])
    IN IF cumVol > 0 THEN RDiv(CumPV(1, RInt(0)), RInt(cumVol))
       ELSE RInt(cs[Len(cs)].close)

\* _hftMomentum(candles), for candles with positive prices.  microPrice and
\* microDev are computed by the source and used nowhere.
hftMomentum(cs) ==
    IF Len(cs) < HftBars THEN Null
    ELSE LET recent == LastOf(cs, HftBars)
             current == recent[Len(recent)]
             vw == vwap(recent)
             vwapDev == RMul(RDiv(RSub(RInt(current.close), vw), vw), RInt(100))
             last10 == LastOf(recent, TickBars)
             RECURSIVE Momentum(_)
             Momentum(i) == IF i > Len(last10) THEN 0
                            ELSE last10[i].close - last10[i - 1].close + Momentum(i + 1)
             tickMomentum == Momentum(2)
             tickDir == IF tickMomentum > 0 THEN 1 ELSE -1
             sumVol == SumOf([i \in 1..(Len(recent) - 1) |-> recent[i].volume])
             avgVol == Rat(sumVol, Len(recent) - 1)
             volRatio == RDiv(RInt(current.volume),
                              IF avgVol[1] = 0 THEN RInt(1) ELSE avgVol)
             strength == RMin(RAdd(RMul(RAbs(vwapDev), RInt(200)),
                                   RMul(volRatio, RInt(10))),
                              RInt(100))
         IN IF RLess(vwapDev, Rat(-15, 100)) /\ tickDir > 0 /\ RLess(Rat(13, 10), volRatio)
            THEN [action |-> "BUY", strength |-> strength]
            ELSE IF RLess(Rat(15, 100), vwapDev) /\ tickDir < 0
                    /\ RLess(Rat(13, 10), volRatio)
            THEN [action |-> "SELL", strength |-> strength]
            ELSE [action |-> "HOLD", strength |-> <<10, 1>>]

\* _linearRegSlope(values), for at least two values; x runs from 0.
linearRegSlope(values) ==
    LET n == Len(values)
        sumX == SumOf([i \in 1..n |-> i - 1])
        sumY == SumOf(values)
        sumXY == SumOf([i \in 1..n |-> (i - 1) * values[i]])
        sumX2 == SumOf([i \in 1..n |-> (i - 1) * (i - 1)])
    IN Rat(n * sumXY - sumX * sumY, n * sumX2 - sumX * sumX)

\* _rSquared(values)
rSquared(values) ==
    LET n == Len(values)
        slope == linearRegSlope(values)
        meanY == Rat(SumOf(values), n)
        intercept == RSub(meanY, RMul(slope, Rat(n - 1, 2)))
        Sq(x) == RMul(x, x)
        RECURSIVE Ss(_, _)
        Ss(i, ss) ==
            IF i > n THEN ss
            ELSE LET predicted == RAdd(intercept, RMul(slope, RInt(i - 1)))
                     ssRes == RAdd(ss[1], Sq(RSub(RInt(values[i]), predicted)))
                     ssTot == RAdd(ss[2], Sq(RSub(RInt(values[i]), meanY)))
                 IN Only({Ss(i + 1, next) : next \in {<<ssRes, ssTot>>}})
        sums == Ss(1, <<RInt(0), RInt(0)>>)
    IN IF sums[2][1] > 0 THEN RSub(RInt(1), RDiv(sums[1], sums[2])) ELSE RInt(0)

\* _linearRegression(candles), for candles with positive prices.
linearRegression(cs) ==
    IF Len(cs) < RegressionBars THEN Null
    ELSE LET closes == Closes(LastOf(cs, RegressionBars))
             shortSlope == linearRegSlope(LastOf(closes, RegressionShort))
             longSlope == linearRegSlope(closes)
             avgPrice == Rat(SumOf(closes), Len(closes))
             shortSlopeNorm == RMul(RDiv(shortSlope, avgPrice), RInt(100))
             longSlopeNorm == RMul(RDiv(longSlope, avgPrice), RInt(100))
             r2 == rSquared(LastOf(closes, RegressionShort))
         IN IF RLess(Rat(5, 100), shortSlopeNorm) /\ longSlopeNorm[1] > 0
               /\ RLess(Rat(6, 10), r2)
            THEN [action |-> "BUY", strength |-> RMin(RMul(r2, RInt(100)), RInt(100))]
            ELSE IF RLess(shortSlopeNorm, Rat(-5, 100)) /\ longSlopeNorm[1] < 0
                    /\ RLess(Rat(6, 10), r2)
            THEN [action |-> "SELL", strength |-> RMin(RMul(r2, RInt(100)), RInt(100))]
            ELSE IF RLess(Rat(1, 10), shortSlopeNorm) /\ RLess(longSlopeNorm, Rat(-2, 100))
            THEN [action |-> "SELL",
                  strength |-> RMin(RMul(RAbs(shortSlopeNorm), RInt(300)), RInt(80))]
            ELSE IF RLess(shortSlopeNorm, Rat(-1, 10)) /\ RLess(Rat(2, 100), longSlopeNorm)
            THEN [action |-> "BUY",
                  strength |-> RMin(RMul(RAbs(shortSlopeNorm), RInt(300)), RInt(80))]
            ELSE [action |-> "HOLD", strength |-> <<10, 1>>]

runStrategy(name, sym, cs) ==
    CASE name = "breakout" -> breakoutStrategy(cs)
      [] name = "sma_crossover" -> smaCrossover(cs)
      [] name = "rsi" -> rsiStrategy(cs)
      [] name = "hft_momentum" -> hftMomentum(cs)
      [] name = "linear_regression" -> linearRegression(cs)
      [] name \notin {"sma_crossover", "rsi", "breakout", "hft_momentum",
                      "linear_regression"} -> Null

\* A deduplication that lets every signal through.
isNewSignalAlways(e, sym, strat, signal) == TRUE

\* A deduplication that compares the whole signal, strength included.
isNewSignalByValue(e, sym, strat, signal) ==
    IF ~(Has(e.lastSignals, sym) /\ Has(e.lastSignals[sym], strat)) THEN TRUE
    ELSE e.lastSignals[sym][strat] # signal

isNewSignal(e, sym, strat, signal) ==
    IF ~(Has(e.lastSignals, sym) /\ Has(e.lastSignals[sym], strat)) THEN TRUE
    ELSE e.lastSignals[sym][strat].action # signal.action

(***************************************************************************)
(* _processKline(sym, kline).                                              *)
(***************************************************************************)
CandleOf(kline) ==
    [time |-> kline.t, open |-> kline.o, high |-> kline.h, low |-> kline.l,
     close |-> kline.c, volume |-> kline.v, closed |-> kline.x]

\* The update-or-append rule with a shift() that runs one entry late.
AggregateLateShift(cs, candle) ==
    IF Len(cs) > 0 /\ cs[Len(cs)].time = candle.time
    THEN [cs EXCEPT ![Len(cs)] = candle]
    ELSE IF candle.closed \/ Len(cs) = 0
    THEN LET pushed == Append(cs, candle)
         IN IF Len(pushed) > KeepLast + 1 THEN Tail(pushed) ELSE pushed
    ELSE cs

\* The update-or-append rule that appends every tick of a new timestamp,
\* closed or not.
AggregateEveryTick(cs, candle) ==
    IF Len(cs) > 0 /\ cs[Len(cs)].time = candle.time
    THEN [cs EXCEPT ![Len(cs)] = candle]
    ELSE LET pushed == Append(cs, candle)
         IN IF Len(pushed) > KeepLast THEN Tail(pushed) ELSE pushed

\* The update-or-append rule on the buffer.
Aggregate(cs, candle) ==
    IF Len(cs) > 0 /\ cs[Len(cs)].time = candle.time
    THEN [cs EXCEPT ![Len(cs)] = candle]
    ELSE IF candle.closed \/ Len(cs) = 0
    THEN LET pushed == Append(cs, candle)
         IN IF Len(pushed) > KeepLast THEN Tail(pushed) ELSE pushed
    ELSE cs

\* A 'price' event that carries the bar's open as its price.
PriceEventOpen(sym, candle) ==
    [type |-> "price", symbol |-> toUpperCase(sym), price |-> candle.open,
     high |-> candle.high, low |-> candle.low, volume |-> candle.volume,
     time |-> candle.time]

PriceEvent(sym, candle) ==
    [type |-> "price", symbol |-> toUpperCase(sym), price |-> candle.close,
     high |-> candle.high, low |-> candle.low, volume |-> candle.volume,
     time |-> candle.time]

\* time: Date.now() of a signal event is left out.
SignalEvent(sym, strat, signal) ==
    [type |-> "signal", symbol |-> toUpperCase(sym), strategy |-> strat,
     action |-> signal.action, strength |-> signal.strength]

\* if (signal && this._isNewSignal(sym, strat, signal)) { record; broadcast }
emitIfNew(e, sym, strat, signal) ==
    IF signal # Null /\ isNewSignal(e, sym, strat, signal)
    THEN broadcast([e EXCEPT !.lastSignals[sym] = Put(@, strat, signal)],
                   SignalEvent(sym, strat, signal))
    ELSE e

\* The strategy loop run from the end of the list to its start.
RECURSIVE runStrategiesBackwards(_, _, _, _)
runStrategiesBackwards(e, sym, strategies, i) ==
    IF i > Len(strategies) THEN e
    ELSE LET strat == strategies[Len(strategies) - i + 1]
             signal == runStrategy(strat, sym, e.candles[sym])
             e1 == emitIfNew(e, sym, strat, signal)
         IN runStrategiesBackwards(e1, sym, strategies, i + 1)

\* for (const strat of strategies) { ... }, from the i-th strategy on.
RECURSIVE runStrategies(_, _, _, _)
runStrategies(e, sym, strategies, i) ==
    IF i > Len(strategies) THEN e
    ELSE LET strat == strategies[i]
             signal == runStrategy(strat, sym, e.candles[sym])
             e1 == emitIfNew(e, sym, strat, signal)
         IN runStrategies(e1, sym, strategies, i + 1)

\* _processKline that evaluates the strategies on every tick, closed or not.
processKlineAnyTick(e, sym, kline) ==
    IF ~Has(e.candles, sym) THEN e
    ELSE LET candle == CandleOf(kline)
             cs == Aggregate(e.candles[sym], candle)
             e1 == broadcast([e EXCEPT !.candles[sym] = cs], PriceEvent(sym, candle))
             strategies == IF Has(e1.activeStrategies, sym)
                           THEN e1.activeStrategies[sym] ELSE <<>>
         IN IF Len(cs) >= MinEvalBars
            THEN runStrategies(e1, sym, strategies, 1)
            ELSE e1

\* this.candles[sym] is undefined after an unsubscribe: candles.length then
\* throws a TypeError before any effect, and the message handler's
\* try/catch swallows it.
processKline(e, sym, kline) ==
    IF ~Has(e.candles, sym) THEN e
    ELSE LET candle == CandleOf(kline)
             cs == Aggregate(e.candles[sym], candle)
             e1 == broadcast([e EXCEPT !.candles[sym] = cs], PriceEvent(sym, candle))
             strategies == IF Has(e1.activeStrategies, sym)
                           THEN e1.activeStrategies[sym] ELSE <<>>
         IN IF candle.closed /\ Len(cs) >= MinEvalBars
            THEN runStrategies(e1, sym, strategies, 1)
            ELSE e1

(***************************************************************************)
(* subscribe(symbol, strategies) and unsubscribe(symbol).                  *)
(***************************************************************************)
\* this._fetchInitialCandles(sym).then(...): the request leaves, the rest of
\* the chain is pending.
StartFeed(e, sym) ==
    [e EXCEPT !.feeds[FreshFeed(e)] = [sym |-> sym, stage |-> "fetching"]]

subscribe(e, symbol, strategies) ==
    LET sym == Normalize(symbol)
        e0 == [e EXCEPT !.lastReq = Put(@, sym, "subscribe")]
    IN IF Has(e0.binanceSockets, sym) THEN e0
       ELSE StartFeed(
                [e0 EXCEPT !.candles = Put(@, sym, <<>>),
                           !.activeStrategies = Put(@, sym, strategies),
                           !.lastSignals = Put(@, sym, EmptyObj)],
                sym)

\* this.binanceSockets[sym].close(): the close handshake starts, 'close' is
\* emitted later.
CloseSocket(e, f) ==
    IF e.feeds[f].stage = "open" THEN [e EXCEPT !.feeds[f].stage = "closing"] ELSE e

unsubscribe(e, symbol) ==
    LET sym == Normalize(symbol)
        e0 == [e EXCEPT !.lastReq = Put(@, sym, "unsubscribe")]
        e1 == IF Has(e0.binanceSockets, sym)
              THEN [CloseSocket(e0, e0.binanceSockets[sym])
                        EXCEPT !.binanceSockets = Del(@, sym)]
              ELSE e0
        e2 == [e1 EXCEPT !.candles = Del(@, sym),
                         !.activeStrategies = Del(@, sym),
                         !.lastSignals = Del(@, sym)]
    IN broadcast(e2, [type |-> "unsubscribed", symbol |-> toUpperCase(sym)])

(***************************************************************************)
(* _fetchInitialCandles(sym), from the answer of the REST call on, and the *)
(* then() callback that runs in the same turn: new WebSocket(wsUrl).       *)
(* rows = <<>> with ok = FALSE is the catch branch.                        *)
(***************************************************************************)
SeedCandle(k) ==
    [time |-> k[1], open |-> k[2], high |-> k[3], low |-> k[4], close |-> k[5],
     volume |-> k[6], closed |-> TRUE]

fetchInitialCandles(e, sym, ok, rows) ==
    IF ok
    THEN [e EXCEPT !.candles = Put(@, sym, [i \in 1..Len(rows) |-> SeedCandle(rows[i])])]
    ELSE [e EXCEPT !.candles = Put(@, sym, <<>>)]

\* A subscribe() whose chain ends when the seed fetch fails.
onFetchedOrGiveUp(e, f, ok, rows) ==
    IF ok
    THEN [fetchInitialCandles(e, e.feeds[f].sym, ok, rows)
             EXCEPT !.feeds[f].stage = "connecting"]
    ELSE [e EXCEPT !.feeds[f] = FreeFeed]

onFetched(e, f, ok, rows) ==
    [fetchInitialCandles(e, e.feeds[f].sym, ok, rows)
        EXCEPT !.feeds[f].stage = "connecting"]

(***************************************************************************)
(* The upstream socket's handlers.                                         *)
(***************************************************************************)
\* An exception no handler catches ends the process: every socket, timer
\* and map goes with it.
Dead(e) ==
    [e EXCEPT !.binanceSockets = EmptyObj, !.candles = EmptyObj,
              !.activeStrategies = EmptyObj, !.lastSignals = EmptyObj,
              !.feeds = [f \in FeedIds |-> FreeFeed], !.running = FALSE,
              !.out = <<>>, !.clients = EmptyObj, !.sent = EmptyObj]

\* binanceWs.on('open'): this.candles[sym].length throws when the symbol
\* was unsubscribed after the fetch returned.
onOpen(e, f) ==
    LET sym == e.feeds[f].sym
        e1 == [e EXCEPT !.binanceSockets = Put(@, sym, f), !.feeds[f].stage = "open"]
    IN IF ~Has(e1.candles, sym) THEN Dead(e1)
       ELSE broadcast(e1, [type |-> "subscribed", symbol |-> toUpperCase(sym),
                           candleCount |-> Len(e1.candles[sym])])

\* binanceWs.on('message')
onMessage(e, f, kline) == processKline(e, e.feeds[f].sym, kline)

\* The message handler without its try/catch.
onRawMessageUncaught(e, f, raw) ==
    IF ~raw.json THEN Dead(e)
    ELSE IF raw.k = <<>> THEN e
    ELSE onMessage(e, f, raw.k[1])

\* binanceWs.on('message') from the raw frame on: raw.json tells whether
\* JSON.parse(raw) succeeds (the catch ignores its failure), raw.k is the
\* payload data.k, <<>> when there is none (if (!kline) return).
onRawMessage(e, f, raw) ==
    IF ~raw.json THEN e
    ELSE IF raw.k = <<>> THEN e
    ELSE onMessage(e, f, raw.k[1])

\* An 'error' handler that tears the feed down as the 'close' handler does.
onErrorTearDown(e, f) ==
    [e EXCEPT !.binanceSockets = Del(@, e.feeds[f].sym), !.feeds[f].stage = "timer"]

\* binanceWs.on('error'): the message is logged.
onError(e, f) == e

\* binanceWs.on('close'): the handle of the symbol is deleted, whichever
\* socket it names, and the timer is set.
onClose(e, f) ==
    [e EXCEPT !.binanceSockets = Del(@, e.feeds[f].sym), !.feeds[f].stage = "timer"]

\* The setTimeout callback without its check of this.activeStrategies[sym].
onReconnectTimerUnchecked(e, f) ==
    LET sym == e.feeds[f].sym
        e1 == [e EXCEPT !.feeds[f] = FreeFeed]
    IN subscribe([e1 EXCEPT !.binanceSockets = Del(@, sym)], sym,
                 IF Has(e1.activeStrategies, sym) THEN e1.activeStrategies[sym] ELSE <<>>)

\* The setTimeout callback, 5 s after 'close'.
onReconnectTimer(e, f) ==
    LET sym == e.feeds[f].sym
        e1 == [e EXCEPT !.feeds[f] = FreeFeed]
    IN IF Has(e1.activeStrategies, sym)
       THEN subscribe([e1 EXCEPT !.binanceSockets = Del(@, sym)],
                      sym, e1.activeStrategies[sym])
       ELSE e1

(***************************************************************************)
(* The viewer side: wss.on('connection'), and the session's 'close' and    *)
(* 'message' handlers.                                                     *)
(***************************************************************************)
\* Object.keys(this.binanceSockets), as a set.
Snapshot(e) == [type |-> "connected", symbols |-> DOMAIN e.binanceSockets]

onConnection(e, c) ==
    [e EXCEPT !.clients = Put(@, c, "open"), !.sent = Put(@, c, <<Snapshot(e)>>)]

\* A 'close' handler that also drops the strategy sets of the symbols.
onViewerCloseTearDown(e, c) ==
    [e EXCEPT !.clients = Del(@, c), !.sent = Del(@, c),
              !.activeStrategies = EmptyObj]

\* ws.on('close', () => this.clients.delete(ws))
onViewerClose(e, c) ==
    [e EXCEPT !.clients = Del(@, c), !.sent = Del(@, c)]

\* The default of msg.strategies || [...].
AllStrategies ==
    <<"sma_crossover", "rsi", "breakout", "hft_momentum", "linear_regression">>

\* A dispatch whose default strategy list is empty.
handleClientMessageNoDefault(e, msg) ==
    CASE msg.type = "subscribe" ->
             subscribe(e, msg.symbol,
                       IF "strategies" \in DOMAIN msg THEN msg.strategies ELSE <<>>)
      [] msg.type = "unsubscribe" -> unsubscribe(e, msg.symbol)
      [] OTHER -> e

\* _handleClientMessage(ws, msg).  msg.strategies is a list when the field
\* is there, and a list, even an empty one, is truthy.
handleClientMessage(e, msg) ==
    CASE msg.type = "subscribe" ->
             subscribe(e, msg.symbol,
                       IF "strategies" \in DOMAIN msg THEN msg.strategies
                       ELSE AllStrategies)
      [] msg.type = "unsubscribe" -> unsubscribe(e, msg.symbol)
      [] OTHER -> e

\* ws.on('message', (msg) => this._handleClientMessage(ws, JSON.parse(msg))):
\* a SyntaxError of JSON.parse is caught by nothing.
onViewerMessage(e, raw) ==
    IF ~raw.json THEN Dead(e) ELSE handleClientMessage(e, raw.msg)

(***************************************************************************)
(* The state machine.                                                      *)
(***************************************************************************)
Engine ==
    [binanceSockets |-> binanceSockets, candles |-> candles,
     activeStrategies |-> activeStrategies, lastSignals |-> lastSignals,
     feeds |-> feeds, running |-> running, lastReq |-> lastReq, out |-> <<>>,
     clients |-> clients, sent |-> [c \in DOMAIN clients |-> <<>>]]

\* The action of the last 'signal' event of each (event symbol, strategy).
RECURSIVE Emitted(_, _, _)
Emitted(em, evs, i) ==
    IF i > Len(evs) THEN em
    ELSE IF evs[i].type = "signal"
    THEN LET old == IF Has(em, evs[i].symbol) THEN em[evs[i].symbol] ELSE EmptyObj
         IN Emitted(Put(em, evs[i].symbol, Put(old, evs[i].strategy, evs[i].action)),
                    evs, i + 1)
    ELSE IF evs[i].type = "unsubscribed"
    THEN Emitted(Del(em, evs[i].symbol), evs, i + 1)
    ELSE Emitted(em, evs, i + 1)

\* Feed ids only name the callback chains: after every callback the feeds are
\* renumbered in a fixed order (by stage, then symbol, the socket that is the
\* symbol's handle last), and the handles with them.
StageRank(stage) ==
    CASE stage = "fetching" -> 1 [] stage = "connecting" -> 2 [] stage = "open" -> 3
      [] stage = "closing" -> 4 [] stage = "timer" -> 5 [] stage = "free" -> 6

Renumber(e) ==
    LET tagged == [f \in FeedIds |->
                      LET h == Has(e.binanceSockets, e.feeds[f].sym)
                               /\ e.binanceSockets[e.feeds[f].sym] = f
                      IN [feed |-> e.feeds[f], handle |-> h,
                          key |-> StageRank(e.feeds[f].stage) * 100
                                  + Len(e.feeds[f].sym) * 2 + (IF h THEN 1 ELSE 0)]]
        sorted == SortSeq(SubSeq(tagged, 1, MaxFeeds), LAMBDA a, b : a.key < b.key)
    IN [e EXCEPT !.feeds = [i \in FeedIds |-> sorted[i].feed],
                 !.binanceSockets =
                     [s \in DOMAIN e.binanceSockets |->
                         CHOOSE i \in FeedIds : sorted[i].handle /\ sorted[i].feed.sym = s]]

\* The tick events among evs, each with the number n of its tick.
TickEvents(evs, n) ==
    LET RECURSIVE Pick(_)
        Pick(i) ==
            IF i > Len(evs) THEN <<>>
            ELSE IF evs[i].type = "price"
            THEN <<[n |-> n, type |-> "price", strategy |-> ""]>> \o Pick(i + 1)
            ELSE IF evs[i].type = "signal"
            THEN <<[n |-> n, type |-> "signal", strategy |-> evs[i].strategy]>>
                     \o Pick(i + 1)
            ELSE Pick(i + 1)
    IN Pick(1)

(***************************************************************************)
(* The journal's database, src/server.js with authentication (the second   *)
(* application of the file).  A table is a function from the primary key   *)
(* to the row; one column stands for the columns a request's body fills:   *)
(* notes of a trade, quantity of an execution, trend of the market         *)
(* conditions.  market_conditions has one row per trade (trade_id UNIQUE)  *)
(* and is keyed by trade_id.  A screenshot's image_path is the number of   *)
(* its file; files is the content of the uploads directory.                *)
(***************************************************************************)
Users == 1..MaxUsers
Anonymous == 0

EmptyDb ==
    [trades |-> EmptyObj, executions |-> EmptyObj, conditions |-> EmptyObj,
     screenshots |-> EmptyObj, files |-> {},
     nextTrade |-> 1, nextExecution |-> 1, nextFile |-> 1]

NoResponse == [user |-> Anonymous, route |-> "none", id |-> 0, status |-> 0, body |-> {}]

\* The handler's result is computed once, renumbered and committed.  em is
\* the signal history the callback starts from, arg the message delivered.
Commit(result, op, sym, arg, em) ==
    \E e0 \in {result} : \E e \in {Renumber(e0)} :
       /\ binanceSockets' = e.binanceSockets
       /\ candles' = e.candles
       /\ activeStrategies' = e.activeStrategies
       /\ lastSignals' = e.lastSignals
       /\ feeds' = e.feeds
       /\ running' = e.running
       /\ lastReq' = e.lastReq
       /\ out' = e.out
       /\ emitted' = IF e.running THEN Emitted(em, e.out, 1) ELSE EmptyObj
       /\ lastOp' = [op |-> op, sym |-> sym, arg |-> arg]
       /\ clients' = e.clients
       /\ sent' = e.sent
       /\ inbox' = [c \in DOMAIN e.clients |->
                       (IF Has(inbox, c) THEN inbox[c] ELSE <<>>)
                           \o TickEvents(e.sent[c], nTicks)]
       /\ UNCHANGED <<db, res>>

Init ==
    /\ binanceSockets = EmptyObj
    /\ candles = EmptyObj
    /\ activeStrategies = EmptyObj
    /\ lastSignals = EmptyObj
    /\ feeds = [f \in FeedIds |-> FreeFeed]
    /\ running = TRUE
    /\ out = <<>>
    /\ lastReq = EmptyObj
    /\ emitted = EmptyObj
    /\ lastOp = [op |-> "init", sym |-> <<>>, arg |-> <<>>]
    /\ nTicks = 0
    /\ clients = EmptyObj
    /\ sent = EmptyObj
    /\ inbox = EmptyObj
    /\ db = EmptyDb
    /\ res = NoResponse

\* A viewer's {type: 'subscribe', symbol, strategies}.  A subscribe that
\* passes the guard starts a new period of signal history.
Subscribe(symbol, strategies) ==
    /\ running
    /\ Has(binanceSockets, Normalize(symbol)) \/ HasFreeFeed(Engine)
    /\ Commit(subscribe(Engine, symbol, strategies), "subscribe", Normalize(symbol), <<>>,
              IF Has(binanceSockets, Normalize(symbol)) THEN emitted
              ELSE Del(emitted, toUpperCase(Normalize(symbol))))
    /\ UNCHANGED nTicks

\* A viewer's {type: 'unsubscribe', symbol}.
Unsubscribe(symbol) ==
    /\ running
    /\ Commit(unsubscribe(Engine, symbol), "unsubscribe", Normalize(symbol), <<>>, emitted)
    /\ UNCHANGED nTicks

\* The REST call of feed f answers with rows, or fails.
FetchDone(f, ok, rows) ==
    /\ running
    /\ feeds[f].stage = "fetching"
    /\ Commit(onFetched(Engine, f, ok, rows), "fetched", feeds[f].sym, <<ok>>, emitted)
    /\ UNCHANGED nTicks

UpstreamOpen(f) ==
    /\ running
    /\ feeds[f].stage = "connecting"
    /\ Commit(onOpen(Engine, f), "open", feeds[f].sym, <<>>, emitted)
    /\ UNCHANGED nTicks

\* A message of the stream; a socket on which close() was called may still
\* deliver what was in flight.
UpstreamMessage(f, kline) ==
    /\ running
    /\ feeds[f].stage \in {"open", "closing"}
    /\ Commit(onMessage(Engine, f, kline), "message", feeds[f].sym, <<kline>>, emitted)

\* 'close' follows a failed connection attempt, a close by the provider or
\* the network, and the engine's own close().
UpstreamClose(f) ==
    /\ running
    /\ feeds[f].stage \in {"connecting", "open", "closing"}
    /\ Commit(onClose(Engine, f), "close", feeds[f].sym, <<>>, emitted)
    /\ UNCHANGED nTicks

ReconnectTimer(f) ==
    /\ running
    /\ feeds[f].stage = "timer"
    /\ Commit(onReconnectTimer(Engine, f), "timer", feeds[f].sym, <<>>, emitted)
    /\ UNCHANGED nTicks

\* The viewers' requests and the life of the feeds, for symbols drawn from
\* `symbols` and a seed of `rows`.
Lifecycle(symbols, rows) ==
    \/ \E symbol \in symbols, strategies \in StrategyLists : Subscribe(symbol, strategies)
    \/ \E symbol \in symbols : Unsubscribe(symbol)
    \/ \E f \in FeedIds : FetchDone(f, TRUE, rows)
    \/ \E f \in FeedIds : FetchDone(f, FALSE, <<>>)
    \/ \E f \in FeedIds : UpstreamOpen(f)
    \/ \E f \in FeedIds : UpstreamClose(f)
    \/ \E f \in FeedIds : ReconnectTimer(f)

\* A tick in any order, counted against the budget of MaxTicks.
Tick(f, kline) ==
    /\ nTicks < MaxTicks
    /\ UpstreamMessage(f, kline)
    /\ nTicks' = nTicks + 1

\* One symbol key, with the stream delivering ticks in any order.
Next ==
    \/ Lifecycle(RawSymbols, FlatRows(SeedBars))
    \/ \E f \in FeedIds, kline \in Klines : Tick(f, kline)

Spec == Init /\ [][Next]_vars

\* Two symbol keys ('btcusdt' and 'btc/usdt'), the feeds' life alone.
NextFeeds == Lifecycle(SlashSymbols, FlatRows(ShortSeed))

SpecFeeds == Init /\ [][NextFeeds]_vars

(***************************************************************************)
(* A long-running feed: one subscription, the seed of `limit` rows (or     *)
(* none), and a stream that delivers the bars in order up to RollBars.     *)
(***************************************************************************)
RollSymbol == <<"B", "T", "C", "/", "U", "S", "D", "T">>

\* What the stream sends after the buffer's newest bar: that bar's final
\* snapshot again, or the next bar's snapshots, open and then final.
StreamKlines(sym) ==
    LET cs == IF Has(candles, sym) THEN candles[sym] ELSE <<>>
    IN IF Len(cs) = 0
       THEN { Kline(1, BasePrice, x) : x \in BOOLEAN }
       ELSE { Kline(cs[Len(cs)].time, BasePrice, TRUE) }
            \cup { Kline(t, BasePrice, x) : t \in {cs[Len(cs)].time + 1} \cap (1..RollBars),
                                            x \in BOOLEAN }

StreamTick(f) ==
    /\ \E kline \in StreamKlines(feeds[f].sym) : UpstreamMessage(f, kline)
    /\ UNCHANGED nTicks

NextRoll ==
    \/ Subscribe(RollSymbol, <<"breakout">>)
    \/ \E f \in FeedIds : FetchDone(f, TRUE, FlatRows(SeedLimit))
    \/ \E f \in FeedIds : FetchDone(f, FALSE, <<>>)
    \/ \E f \in FeedIds : UpstreamOpen(f)
    \/ \E f \in FeedIds : StreamTick(f)

SpecRoll == Init /\ [][NextRoll]_vars

(***************************************************************************)
(* The deduplicator alone: the body of the strategy loop of _processKline  *)
(* applied to evaluator outputs drawn from Signals, on a subscribed        *)
(* symbol.                                                                 *)
(***************************************************************************)
DedupStrategies == <<"rsi", "breakout">>

Signals ==
    { [action |-> a, strength |-> <<st, 1>>] : a \in {"BUY", "SELL", "HOLD"},
                                               st \in {LowStrength, HighStrength} }
        \cup {Null}

Evaluate(strat, signal) ==
    /\ running
    /\ Has(lastSignals, Normalize(RollSymbol))
    /\ Commit(emitIfNew(Engine, Normalize(RollSymbol), strat, signal), "evaluate",
              Normalize(RollSymbol), <<strat, signal>>, emitted)
    /\ UNCHANGED nTicks

NextDedup ==
    \/ Subscribe(RollSymbol, DedupStrategies)
    \/ \E i \in 1..Len(DedupStrategies), signal \in Signals :
           Evaluate(DedupStrategies[i], signal)

SpecDedup == Init /\ [][NextDedup]_vars

(***************************************************************************)
(* The gateway: viewer sessions that connect, send messages and close,     *)
(* over the feed of one symbol with two evaluating strategies, and an      *)
(* upstream that also sends frames without a candle.                       *)
(***************************************************************************)
ViewerIds == 1..MaxViewers

GatewayStrategies == <<"sma_crossover", "breakout">>

GatewayMessages ==
    { [json |-> TRUE, msg |-> [type |-> "subscribe", symbol |-> RollSymbol,
                               strategies |-> GatewayStrategies]],
      [json |-> TRUE, msg |-> [type |-> "unsubscribe", symbol |-> RollSymbol]],
      [json |-> TRUE, msg |-> [type |-> "ping"]],
      [json |-> FALSE, msg |-> [type |-> ""]] }

GatewayKlines ==
    { Kline(SeedBars + 1, c, x) : c \in {BasePrice, BasePrice + PriceStep},
                                  x \in BOOLEAN }

GarbageFrames == { [json |-> FALSE, k |-> <<>>], [json |-> TRUE, k |-> <<>>] }

HasSymbol(raw) == raw.json /\ raw.msg.type \in {"subscribe", "unsubscribe"}

ViewerConnect(c) ==
    /\ running
    /\ ~Has(clients, c)
    /\ Commit(onConnection(Engine, c), "connect", <<>>, <<c>>, emitted)
    /\ UNCHANGED nTicks

\* The closing handshake of a session starts: its readyState leaves OPEN.
ViewerBeginClose(c) ==
    /\ running
    /\ Has(clients, c) /\ clients[c] = "open"
    /\ Commit([Engine EXCEPT !.clients[c] = "closing"], "closing", <<>>, <<c>>, emitted)
    /\ UNCHANGED nTicks

ViewerClose(c) ==
    /\ running
    /\ Has(clients, c)
    /\ Commit(onViewerClose(Engine, c), "disconnect", <<>>, <<c>>, emitted)
    /\ UNCHANGED nTicks

ViewerMessage(c, raw) ==
    /\ running
    /\ Has(clients, c)
    /\ (raw.json /\ raw.msg.type = "subscribe") =>
           (Has(binanceSockets, Normalize(raw.msg.symbol)) \/ HasFreeFeed(Engine))
    /\ Commit(onViewerMessage(Engine, raw),
              IF raw.json THEN raw.msg.type ELSE "badjson",
              IF HasSymbol(raw) THEN Normalize(raw.msg.symbol) ELSE <<>>,
              <<c, raw>>,
              IF raw.json /\ raw.msg.type = "subscribe"
                 /\ ~Has(binanceSockets, Normalize(raw.msg.symbol))
              THEN Del(emitted, toUpperCase(Normalize(raw.msg.symbol)))
              ELSE emitted)
    /\ UNCHANGED nTicks

\* A frame of the stream that is no JSON text or has no k.
UpstreamGarbage(f, raw) ==
    /\ running
    /\ feeds[f].stage \in {"open", "closing"}
    /\ Commit(onRawMessage(Engine, f, raw), "garbage", feeds[f].sym, <<raw>>, emitted)
    /\ UNCHANGED nTicks

\* The sessions and the life of the feed, without ticks.
NextViewers ==
    \/ \E c \in ViewerIds : ViewerConnect(c)
    \/ \E c \in ViewerIds : ViewerBeginClose(c)
    \/ \E c \in ViewerIds : ViewerClose(c)
    \/ \E c \in ViewerIds, raw \in GatewayMessages : ViewerMessage(c, raw)
    \/ \E f \in FeedIds : FetchDone(f, TRUE, FlatRows(ShortSeed))
    \/ \E f \in FeedIds : FetchDone(f, FALSE, <<>>)
    \/ \E f \in FeedIds : UpstreamOpen(f)
    \/ \E f \in FeedIds : UpstreamClose(f)
    \/ \E f \in FeedIds : ReconnectTimer(f)

SpecViewers == Init /\ [][NextViewers]_vars

\* Sessions that never close are taken in the order of their ids.
ViewerConnectsNext(c) ==
    /\ \A d \in ViewerIds : d < c => Has(clients, d)
    /\ ViewerConnect(c)

\* A session sends the subscribe message.
ViewerSubscribes(c) ==
    \E raw \in GatewayMessages :
        raw.json /\ raw.msg.type = "subscribe" /\ ViewerMessage(c, raw)

\* The stream of a subscribed symbol, with sessions that stay open.
NextStream ==
    \/ \E c \in ViewerIds : ViewerConnectsNext(c)
    \/ \E c \in ViewerIds : ViewerSubscribes(c)
    \/ \E f \in FeedIds : FetchDone(f, TRUE, FlatRows(SeedBars))
    \/ \E f \in FeedIds : FetchDone(f, FALSE, <<>>)
    \/ \E f \in FeedIds : UpstreamOpen(f)
    \/ \E f \in FeedIds, kline \in GatewayKlines : Tick(f, kline)
    \/ \E f \in FeedIds, raw \in GarbageFrames : UpstreamGarbage(f, raw)

SpecStream == Init /\ [][NextStream]_vars

(***************************************************************************)
(* Two symbols side by side: the feeds' life of 'btcusdt' and 'btc/usdt',  *)
(* upstream errors, and ticks on either feed.                              *)
(***************************************************************************)
\* An 'error' of the socket of feed f: a failed connection attempt, or a
\* failure of the open connection.  'close' is a later event.
UpstreamError(f) ==
    /\ running
    /\ feeds[f].stage \in {"connecting", "open", "closing"}
    /\ Commit(onError(Engine, f), "error", feeds[f].sym, <<>>, emitted)
    /\ UNCHANGED nTicks

\* The final snapshot of the bar after the seed, above the seed's range:
\* with 50 candles in the buffer the breakout evaluator returns BUY.
PairKline == Kline(SeedBars + 1, BasePrice + PriceStep, TRUE)

PairTick(f) ==
    /\ UpstreamMessage(f, PairKline)
    /\ UNCHANGED nTicks

NextPair ==
    \/ \E symbol \in SlashSymbols : Subscribe(symbol, <<"breakout">>)
    \/ \E symbol \in SlashSymbols : Unsubscribe(symbol)
    \/ \E f \in FeedIds : FetchDone(f, TRUE, FlatRows(SeedBars))
    \/ \E f \in FeedIds : UpstreamOpen(f)
    \/ \E f \in FeedIds : UpstreamError(f)
    \/ \E f \in FeedIds : UpstreamClose(f)
    \/ \E f \in FeedIds : ReconnectTimer(f)
    \/ \E f \in FeedIds : PairTick(f)

SpecPair == Init /\ [][NextPair]_vars

(***************************************************************************)
(* The dispatch of viewer messages: subscribe messages with and without a  *)
(* strategies field, over feeds that are seeded and open.                  *)
(***************************************************************************)
DispatchLists == { <<>>, <<"rsi">>, <<"breakout", "rsi">> }

DispatchMessages ==
    { [json |-> TRUE, msg |-> [type |-> "subscribe", symbol |-> RollSymbol]],
      [json |-> TRUE, msg |-> [type |-> "unsubscribe", symbol |-> RollSymbol]] }
    \cup { [json |-> TRUE, msg |-> [type |-> "subscribe", symbol |-> RollSymbol,
                                    strategies |-> l]] : l \in DispatchLists }

NextDispatch ==
    \/ \E c \in ViewerIds : ViewerConnectsNext(c)
    \/ \E c \in ViewerIds, raw \in DispatchMessages : ViewerMessage(c, raw)
    \/ \E f \in FeedIds : FetchDone(f, TRUE, FlatRows(ShortSeed))
    \/ \E f \in FeedIds : UpstreamOpen(f)

SpecDispatch == Init /\ [][NextDispatch]_vars

(***************************************************************************)
(* The evaluators alone: a subscribed symbol whose seed is a history of    *)
(* up to MaxHistory bars of one of four shapes, and the evaluators of      *)
(* _runStrategy applied to its buffer.                                     *)
(***************************************************************************)
Shapes == {"flat", "rising", "falling", "step", "drop", "uptick", "downtick", "plateau"}

\* The close of bar i of a history of n bars.  A step or a drop ends a
\* flat history with a bar PriceStep higher or lower, an uptick or a
\* downtick with a bar one unit higher or lower; a plateau rises and ends
\* with two equal closes.
ShapePrice(shape, n, i) ==
    CASE shape = "flat" -> BasePrice
      [] shape = "rising" -> BasePrice + i
      [] shape = "falling" -> BasePrice + MaxHistory - i
      [] shape = "step" -> IF i = n THEN BasePrice + PriceStep ELSE BasePrice
      [] shape = "drop" -> IF i = n THEN BasePrice - PriceStep ELSE BasePrice
      [] shape = "uptick" -> IF i = n THEN BasePrice + 1 ELSE BasePrice
      [] shape = "downtick" -> IF i = n THEN BasePrice - 1 ELSE BasePrice
      [] shape = "plateau" -> IF i = n /\ n > 1 THEN BasePrice + i - 1 ELSE BasePrice + i

\* The bars' wicks: none (high = low = close), or a high WickSize above the
\* close, or a low WickSize below it.
Wicks == {"none", "up", "down"}

\* The last bar's volume, in tenths of the volume of the bars before it.
LastVolumes == {10, 13, 20}

HistoryRowsWith(shape, wick, lastVolume, n) ==
    [i \in 1..n |->
        LET c == ShapePrice(shape, n, i)
        IN <<i, c, IF wick = "up" THEN c + WickSize ELSE c,
             IF wick = "down" THEN c - WickSize ELSE c, c,
             IF i = n THEN lastVolume * BaseVolume ELSE 10 * BaseVolume>>]

HistoryRows(shape, n) == HistoryRowsWith(shape, "none", 10, n)

\* Every shape without wicks and with an even volume, and the three
\* monotone shapes with each wick and each volume of the last bar.
Histories ==
    { <<shape, "none", 10>> : shape \in Shapes }
        \cup ({"flat", "rising", "falling"} \X (Wicks \ {"none"}) \X LastVolumes)

\* The engine after construction.
NewEngine ==
    [binanceSockets |-> EmptyObj, candles |-> EmptyObj, activeStrategies |-> EmptyObj,
     lastSignals |-> EmptyObj, feeds |-> [f \in FeedIds |-> FreeFeed],
     running |-> TRUE, lastReq |-> EmptyObj, out |-> <<>>, clients |-> EmptyObj,
     sent |-> EmptyObj]

\* The engine after subscribe(), the seed's answer and the socket's 'open'.
Seeded(symbol, strategies, ok, rows) ==
    LET e1 == subscribe(NewEngine, symbol, strategies)
        e2 == onFetched(e1, FreshFeed(NewEngine), ok, rows)
    IN Renumber(onOpen(e2, FreshFeed(NewEngine)))

InitEval ==
    \E h \in Histories, n \in 0..MaxHistory :
        \E e \in {Seeded(RollSymbol, AllStrategies, TRUE,
                          HistoryRowsWith(h[1], h[2], h[3], n))} :
            /\ binanceSockets = e.binanceSockets
            /\ candles = e.candles
            /\ activeStrategies = e.activeStrategies
            /\ lastSignals = e.lastSignals
            /\ feeds = e.feeds
            /\ running = e.running
            /\ lastReq = e.lastReq
            /\ out = <<>>
            /\ emitted = EmptyObj
            /\ lastOp = [op |-> "init", sym |-> <<>>, arg |-> <<>>]
            /\ nTicks = 0
            /\ clients = EmptyObj
            /\ sent = EmptyObj
            /\ inbox = EmptyObj
            /\ db = EmptyDb
            /\ res = NoResponse

\* this._runStrategy(strat, sym, candles) on the symbol's buffer; the result
\* is kept in lastOp.
RunStrategy(strat) ==
    /\ running
    /\ Has(candles, Normalize(RollSymbol))
    /\ lastOp' = [op |-> "run", sym |-> Normalize(RollSymbol),
                  arg |-> <<strat, runStrategy(strat, Normalize(RollSymbol),
                                               candles[Normalize(RollSymbol)])>>]
    /\ UNCHANGED <<binanceSockets, candles, activeStrategies, lastSignals, feeds,
                   running, out, lastReq, emitted, nTicks, clients, sent, inbox, db, res>>

NextEval == \E i \in 1..Len(AllStrategies) : RunStrategy(AllStrategies[i])

SpecEval == InitEval /\ [][NextEval]_vars

(***************************************************************************)
(* The spellings of one symbol.  subscribe() and unsubscribe() are called  *)
(* with 'BTC/USDT' and with 'btcusdt'; the spelling of the call is kept in *)
(* lastOp.                                                                 *)
(***************************************************************************)
SpelledSubscribe(symbol) ==
    /\ running
    /\ Has(binanceSockets, Normalize(symbol)) \/ HasFreeFeed(Engine)
    /\ Commit(subscribe(Engine, symbol, <<"breakout">>), "subscribe", Normalize(symbol),
              <<symbol>>,
              IF Has(binanceSockets, Normalize(symbol)) THEN emitted
              ELSE Del(emitted, toUpperCase(Normalize(symbol))))
    /\ UNCHANGED nTicks

SpelledUnsubscribe(symbol) ==
    /\ running
    /\ Commit(unsubscribe(Engine, symbol), "unsubscribe", Normalize(symbol), <<symbol>>,
              emitted)
    /\ UNCHANGED nTicks

NextSpelling ==
    \/ \E symbol \in RawSymbols : SpelledSubscribe(symbol)
    \/ \E symbol \in RawSymbols : SpelledUnsubscribe(symbol)
    \/ \E f \in FeedIds : FetchDone(f, TRUE, FlatRows(ShortSeed))
    \/ \E f \in FeedIds : UpstreamOpen(f)
    \/ \E f \in FeedIds : UpstreamClose(f)
    \/ \E f \in FeedIds : ReconnectTimer(f)

SpecSpelling == Init /\ [][NextSpelling]_vars

(***************************************************************************)
(* The journal's routes, src/server.js from line 347 on.  A handler takes  *)
(* the database d, the authenticated user u (req.userId), the :id of the   *)
(* path and the body's value; it gives the database after the request,     *)
(* the status and the rows of the response.                                *)
(***************************************************************************)
Notes == {"a", "b"}
Trends == {"bullish", "bearish"}
Quantities == 1..MaxQuantity

Reply(d, status, body) == [db |-> d, status |-> status, body |-> body]

\* SELECT ... FROM trades: the rows with a key in ids, as a set.
TradeRows(d, ids) ==
    { [table |-> "trades", trade_id |-> t, user_id |-> d.trades[t].user_id,
       notes |-> d.trades[t].notes] : t \in ids \cap DOMAIN d.trades }

ExecutionRows(d, ids) ==
    { [table |-> "trade_execution_log", execution_id |-> x,
       trade_id |-> d.executions[x].trade_id, quantity |-> d.executions[x].quantity] :
          x \in ids \cap DOMAIN d.executions }

\* The keys of the rows of a table that belong to one of the trades.
OfTrades(table, trades) == {k \in DOMAIN table : table[k].trade_id \in trades}

ConditionRows(d, id) ==
    IF Has(d.conditions, id)
    THEN {[table |-> "market_conditions", trade_id |-> id, trend |-> d.conditions[id].trend]}
    ELSE {}

ScreenshotRows(d, ids) ==
    { [table |-> "screenshots", screenshot_id |-> s,
       trade_id |-> d.screenshots[s].trade_id, image_path |-> d.screenshots[s].image_path] :
          s \in ids \cap DOMAIN d.screenshots }

\* The restriction of a table to the rows with a key in keys.
Keep(table, keys) == [k \in keys \cap DOMAIN table |-> table[k]]

\* DELETE FROM trades WHERE trade_id = id, with the schema's ON DELETE
\* CASCADE on trade_execution_log, market_conditions and screenshots.
DeleteTradeRow(d, id) ==
    [d EXCEPT !.trades = Del(@, id),
              !.executions = Keep(@, DOMAIN @ \ OfTrades(@, {id})),
              !.conditions = Del(@, id),
              !.screenshots = Keep(@, DOMAIN @ \ OfTrades(@, {id}))]

\* app.get('/api/trades/:id')
getTrade(d, u, id) ==
    LET rows == TradeRows(d, {t \in {id} \cap DOMAIN d.trades : d.trades[t].user_id = u})
    IN IF rows = {} THEN Reply(d, 404, {}) ELSE Reply(d, 200, rows)

\* app.post('/api/trades'): the INSERT, then the SELECT of the new row.
postTrade(d, u, notes) ==
    LET id == d.nextTrade
        d1 == [d EXCEPT !.trades = Put(@, id, [user_id |-> u, notes |-> notes]),
                        !.nextTrade = @ + 1]
    IN Reply(d1, 201, TradeRows(d1, {id}))

\* app.put('/api/trades/:id'): UPDATE ... WHERE trade_id=? AND user_id=?,
\* then SELECT ... WHERE t.trade_id = ?; res.json(rows[0]).
putTrade(d, u, id, notes) ==
    LET d1 == IF Has(d.trades, id) /\ d.trades[id].user_id = u
              THEN [d EXCEPT !.trades[id].notes = notes]
              ELSE d
    IN Reply(d1, 200, TradeRows(d1, {id}))

\* app.delete('/api/trades/:id'): the files of the trade's screenshots are
\* unlinked, then DELETE ... WHERE trade_id=? AND user_id=?.
deleteTrade(d, u, id) ==
    LET paths == { d.screenshots[s].image_path : s \in OfTrades(d.screenshots, {id}) }
        d1 == [d EXCEPT !.files = @ \ paths]
        d2 == IF Has(d1.trades, id) /\ d1.trades[id].user_id = u
              THEN DeleteTradeRow(d1, id)
              ELSE d1
    IN Reply(d2, 200, {})

\* app.get('/api/trades/:id/executions')
getExecutions(d, u, id) ==
    Reply(d, 200, ExecutionRows(d, OfTrades(d.executions, {id})))

\* app.post('/api/trades/:id/executions'): the INSERT fails on the foreign
\* key when the trade does not exist, and the catch answers 500.
postExecution(d, u, id, quantity) ==
    IF ~Has(d.trades, id) THEN Reply(d, 500, {})
    ELSE LET x == d.nextExecution
             d1 == [d EXCEPT !.executions =
                                 Put(@, x, [trade_id |-> id, quantity |-> quantity]),
                             !.nextExecution = @ + 1]
         IN Reply(d1, 201, ExecutionRows(d1, {x}))

\* app.delete('/api/executions/:id')
deleteExecution(d, u, id) ==
    Reply([d EXCEPT !.executions = Del(@, id)], 200, {})

\* app.get('/api/trades/:id/conditions'): res.json(rows[0] || null)
getConditions(d, u, id) == Reply(d, 200, ConditionRows(d, id))

\* app.put('/api/trades/:id/conditions'): UPDATE when a row exists, INSERT
\* (with the foreign key on trades) when none does.
putConditions(d, u, id, trend) ==
    IF ~Has(d.conditions, id) /\ ~Has(d.trades, id) THEN Reply(d, 500, {})
    ELSE LET d1 == [d EXCEPT !.conditions = Put(@, id, [trend |-> trend])]
         IN Reply(d1, 200, ConditionRows(d1, id))

\* app.get('/api/trades/:id/screenshots')
getScreenshots(d, u, id) ==
    Reply(d, 200, ScreenshotRows(d, OfTrades(d.screenshots, {id})))

\* app.post('/api/trades/:id/screenshots', upload.single('image'), ...):
\* multer stores the file before the handler runs; without a file the
\* answer is 400, and a failed INSERT leaves the file where it is.
postScreenshot(d, u, id, hasFile) ==
    IF ~hasFile THEN Reply(d, 400, {})
    ELSE LET path == d.nextFile
             d1 == [d EXCEPT !.files = @ \cup {path}, !.nextFile = @ + 1]
         IN IF ~Has(d1.trades, id) THEN Reply(d1, 500, {})
            ELSE LET d2 == [d1 EXCEPT !.screenshots =
                                          Put(@, path, [trade_id |-> id,
                                                        image_path |-> path])]
                 IN Reply(d2, 201, ScreenshotRows(d2, {path}))

\* app.delete('/api/screenshots/:id')
deleteScreenshot(d, u, id) ==
    LET paths == IF Has(d.screenshots, id) THEN {d.screenshots[id].image_path} ELSE {}
    IN Reply([d EXCEPT !.files = @ \ paths, !.screenshots = Del(@, id)], 200, {})

\* authMiddleware and the handler behind it: a request without a valid
\* bearer token (user = Anonymous) is answered 401 and reaches no handler.
authMiddleware(d, user, handled) ==
    IF user \notin Users THEN Reply(d, 401, {}) ELSE handled

\* One request and its response.
Respond(route, user, id, reply) ==
    \E r \in {authMiddleware(db, user, reply)} :
        /\ db' = r.db
        /\ res' = [user |-> user, route |-> route, id |-> id,
                   status |-> r.status, body |-> r.body]
        /\ UNCHANGED <<binanceSockets, candles, activeStrategies, lastSignals, feeds,
                       running, out, lastReq, emitted, lastOp, nTicks, clients, sent,
                       inbox>>

Callers == Users \cup {Anonymous}
TradeIds == 1..MaxTrades
ExecutionIds == 1..MaxExecutions
ScreenshotIds == 1..MaxScreenshots

GetTrade(user, id) == Respond("GET /api/trades/:id", user, id, getTrade(db, user, id))

PostTrade(user, notes) ==
    /\ db.nextTrade <= MaxTrades
    /\ Respond("POST /api/trades", user, db.nextTrade, postTrade(db, user, notes))

PutTrade(user, id, notes) ==
    Respond("PUT /api/trades/:id", user, id, putTrade(db, user, id, notes))

DeleteTrade(user, id) ==
    Respond("DELETE /api/trades/:id", user, id, deleteTrade(db, user, id))

GetExecutions(user, id) ==
    Respond("GET /api/trades/:id/executions", user, id, getExecutions(db, user, id))

PostExecution(user, id, quantity) ==
    /\ db.nextExecution <= MaxExecutions
    /\ Respond("POST /api/trades/:id/executions", user, id,
               postExecution(db, user, id, quantity))

DeleteExecution(user, id) ==
    Respond("DELETE /api/executions/:id", user, id, deleteExecution(db, user, id))

GetConditions(user, id) ==
    Respond("GET /api/trades/:id/conditions", user, id, getConditions(db, user, id))

PutConditions(user, id, trend) ==
    Respond("PUT /api/trades/:id/conditions", user, id, putConditions(db, user, id, trend))

GetScreenshots(user, id) ==
    Respond("GET /api/trades/:id/screenshots", user, id, getScreenshots(db, user, id))

PostScreenshot(user, id, hasFile) ==
    /\ db.nextFile <= MaxScreenshots
    /\ Respond("POST /api/trades/:id/screenshots", user, id,
               postScreenshot(db, user, id, hasFile))

DeleteScreenshot(user, id) ==
    Respond("DELETE /api/screenshots/:id", user, id, deleteScreenshot(db, user, id))

NextJournal ==
    \/ \E user \in Callers, id \in TradeIds : GetTrade(user, id)
    \/ \E user \in Callers, notes \in Notes : PostTrade(user, notes)
    \/ \E user \in Callers, id \in TradeIds, notes \in Notes : PutTrade(user, id, notes)
    \/ \E user \in Callers, id \in TradeIds : DeleteTrade(user, id)
    \/ \E user \in Callers, id \in TradeIds : GetExecutions(user, id)
    \/ \E user \in Callers, id \in TradeIds, quantity \in Quantities :
           PostExecution(user, id, quantity)
    \/ \E user \in Callers, id \in ExecutionIds : DeleteExecution(user, id)
    \/ \E user \in Callers, id \in TradeIds : GetConditions(user, id)
    \/ \E user \in Callers, id \in TradeIds, trend \in Trends : PutConditions(user, id, trend)
    \/ \E user \in Callers, id \in TradeIds : GetScreenshots(user, id)
    \/ \E user \in Callers, id \in TradeIds, hasFile \in BOOLEAN :
           PostScreenshot(user, id, hasFile)
    \/ \E user \in Callers, id \in ScreenshotIds : DeleteScreenshot(user, id)

SpecJournal == Init /\ [][NextJournal]_vars

(***************************************************************************)
(* Properties.                                                             *)
(***************************************************************************)
Live == {"connecting", "open"}
Attempt == {"fetching", "connecting", "open"}

\* The number of feeds of sym in one of the stages.
FeedCount(fs, sym, stages) ==
    Cardinality({f \in FeedIds : fs[f].sym = sym /\ fs[f].stage \in stages})

\* The per-symbol entry of a map, <<>> when there is none.
Entry(m, sym) == IF Has(m, sym) THEN <<m[sym]>> ELSE <<>>

Unsubscribed(sym) == Has(lastReq, sym) /\ lastReq[sym] = "unsubscribe"
Subscribed(sym) == Has(lastReq, sym) /\ lastReq[sym] = "subscribe"

\* C1: while the last request for a symbol is an unsubscribe, no upstream
\* connection of the symbol is open and no 'price' or 'signal' event of the
\* symbol is broadcast, also when the unsubscribe came while the seed fetch
\* or the connection attempt was pending.
C1_UnsubscribedFeedIsSilent ==
    \A sym \in DOMAIN lastReq :
        Unsubscribed(sym) =>
            /\ FeedCount(feeds, sym, {"open"}) = 0
            /\ \A i \in 1..Len(out) :
                   ~(out[i].type \in {"price", "signal"}
                     /\ out[i].symbol = toUpperCase(sym))

\* C2: a reconnect timer of a symbol that fires while the symbol's last
\* request is an unsubscribe starts no connection attempt for the symbol,
\* recreates none of its handle, candles, strategies and last signals, and
\* broadcasts nothing.
C2_TimerAfterUnsubscribeIsInert ==
    [][(lastOp'.op = "timer" /\ Unsubscribed(lastOp'.sym)) =>
         LET sym == lastOp'.sym
         IN /\ FeedCount(feeds', sym, Attempt) <= FeedCount(feeds, sym, Attempt)
            /\ Has(binanceSockets', sym) => Has(binanceSockets, sym)
            /\ Entry(candles', sym) = Entry(candles, sym)
            /\ Entry(activeStrategies', sym) = Entry(activeStrategies, sym)
            /\ Entry(lastSignals', sym) = Entry(lastSignals, sym)
            /\ lastReq' = lastReq
            /\ out' = <<>>]_vars

\* C2's case has happened: the timer of an unsubscribed symbol has fired, and
\* the symbol has no state and no feed.  (Close then unsubscribe, and
\* unsubscribe then close, lead to the same state before the timer.)
C2_TimerFiredAfterUnsubscribe ==
    /\ lastOp.op = "timer"
    /\ Unsubscribed(lastOp.sym)
    /\ ~Has(binanceSockets, lastOp.sym) /\ ~Has(candles, lastOp.sym)
    /\ ~Has(activeStrategies, lastOp.sym) /\ ~Has(lastSignals, lastOp.sym)
    /\ \A f \in FeedIds : feeds[f].sym # lastOp.sym

\* C3: a reconnect timer of a symbol that is still subscribed starts one
\* new connection attempt for that symbol and leaves its strategy set as it
\* was.
C3_TimerReconnectsSameSymbol ==
    [][(lastOp'.op = "timer" /\ Subscribed(lastOp'.sym)) =>
         LET sym == lastOp'.sym
         IN /\ FeedCount(feeds', sym, {"fetching"})
                   = FeedCount(feeds, sym, {"fetching"}) + 1
            /\ Has(activeStrategies, sym)
            /\ Entry(activeStrategies', sym) = Entry(activeStrategies, sym)]_vars

\* C4: no symbol has two upstream connections that are connecting or open.
C4_OneLiveConnectionPerSymbol ==
    \A f, g \in FeedIds :
        (f # g /\ feeds[f].stage \in Live /\ feeds[g].stage \in Live)
            => feeds[f].sym # feeds[g].sym

\* C5: a viewer's subscribe for a symbol whose last request is a subscribe
\* changes neither the symbol's strategy set nor its candles nor its last
\* signals, in whatever stage the symbol's feed is.
C5_SecondSubscribeIsNoOp ==
    [][(lastOp'.op = "subscribe" /\ Subscribed(lastOp'.sym)) =>
         LET sym == lastOp'.sym
         IN /\ Entry(activeStrategies', sym) = Entry(activeStrategies, sym)
            /\ Entry(candles', sym) = Entry(candles, sym)
            /\ Entry(lastSignals', sym) = Entry(lastSignals, sym)]_vars

\* C6: while the last request for a symbol is an unsubscribe, the symbol has
\* no handle, no candles, no strategy set and no last signals.
C6_UnsubscribedSymbolHasNoState ==
    \A sym \in DOMAIN lastReq :
        Unsubscribed(sym) =>
            /\ ~Has(binanceSockets, sym)
            /\ ~Has(candles, sym)
            /\ ~Has(activeStrategies, sym)
            /\ ~Has(lastSignals, sym)

\* C7: no candle buffer holds two entries with the same timestamp, and a
\* tick with the timestamp of the last entry replaces that entry alone.
C7_NoDuplicateTimestamps ==
    /\ \A sym \in DOMAIN candles :
           \A i, j \in 1..Len(candles[sym]) :
               i # j => candles[sym][i].time # candles[sym][j].time
    /\ (lastOp.op = "message" /\ Has(candles, lastOp.sym)) =>
           LET cs == candles[lastOp.sym]
           IN (Len(cs) > 0 /\ cs[Len(cs)].time = lastOp.arg[1].t)
                  => cs[Len(cs)] = CandleOf(lastOp.arg[1])

\* C8: the timestamps of every candle buffer increase strictly from the
\* first entry to the last.
C8_TimestampsStrictlyIncrease ==
    \A sym \in DOMAIN candles :
        \A i \in 1..(Len(candles[sym]) - 1) :
            candles[sym][i].time < candles[sym][i + 1].time

\* A tick that _processKline appends to cs.
Appends(cs, kline) ==
    (Len(cs) = 0 \/ cs[Len(cs)].time # kline.t) /\ (kline.x \/ Len(cs) = 0)

\* C9: no candle buffer is ever longer than 500, and a tick appended to a
\* buffer of 500 entries removes the first entry, keeps the others in their
\* order and puts the new candle last.
C9_BufferKeepsLast500 ==
    /\ [](\A sym \in DOMAIN candles : Len(candles[sym]) <= KeepLast)
    /\ [][(lastOp'.op = "message" /\ Has(candles, lastOp'.sym)
           /\ Len(candles[lastOp'.sym]) = KeepLast
           /\ Appends(candles[lastOp'.sym], lastOp'.arg[1])) =>
             /\ Has(candles', lastOp'.sym)
             /\ candles'[lastOp'.sym]
                    = Append(Tail(candles[lastOp'.sym]), CandleOf(lastOp'.arg[1]))]_vars

\* C9's case has happened: a tick was appended to a full buffer, whose
\* oldest entry is gone.
C9_OldestEvicted ==
    /\ lastOp.op = "message"
    /\ Has(candles, lastOp.sym)
    /\ Len(candles[lastOp.sym]) = KeepLast
    /\ candles[lastOp.sym][1].time = RollBars - KeepLast + 1
    /\ candles[lastOp.sym][KeepLast].time = RollBars
    /\ lastOp.arg[1].t = RollBars

\* C10: between a viewer's subscribe and the unsubscribe, no 'signal' event
\* of a (symbol, strategy) carries the action of the pair's previous
\* 'signal' event, upstream closes and reconnects included.
C10_NoRepeatedAction ==
    [][\A i \in 1..Len(out') :
          out'[i].type = "signal" =>
              ~(/\ Has(emitted, out'[i].symbol)
                /\ Has(emitted[out'[i].symbol], out'[i].strategy)
                /\ emitted[out'[i].symbol][out'[i].strategy] = out'[i].action)]_vars

\* C11: an evaluator output for a (symbol, strategy) is emitted if and only
\* if no action is recorded for the pair or its action differs from the
\* recorded one, whatever its strength; when it is emitted its action
\* becomes the recorded one, and when it is not the record is unchanged.
C11_DedupDecision ==
    [][(lastOp'.op = "evaluate" /\ lastOp'.arg[2] # Null) =>
         LET sym == lastOp'.sym
             strat == lastOp'.arg[1]
             signal == lastOp'.arg[2]
             recorded == Has(lastSignals[sym], strat)
             emits == \E i \in 1..Len(out') :
                          /\ out'[i].type = "signal"
                          /\ out'[i].strategy = strat
                          /\ out'[i].action = signal.action
         IN /\ emits <=> (~recorded \/ lastSignals[sym][strat].action # signal.action)
            /\ emits => /\ Has(lastSignals'[sym], strat)
                        /\ lastSignals'[sym][strat].action = signal.action
            /\ ~emits => lastSignals'[sym] = lastSignals[sym]
            /\ \A other \in DOMAIN lastSignals[sym] \ {strat} :
                   /\ Has(lastSignals'[sym], other)
                   /\ lastSignals'[sym][other] = lastSignals[sym][other]]_vars

\* C11's case has happened: an output with the recorded action and another
\* strength was evaluated and nothing was emitted.
C11_StrengthAloneNotEmitted ==
    /\ lastOp.op = "evaluate"
    /\ lastOp.arg[2] # Null
    /\ out = <<>>
    /\ Has(lastSignals, lastOp.sym)
    /\ Has(lastSignals[lastOp.sym], lastOp.arg[1])
    /\ lastSignals[lastOp.sym][lastOp.arg[1]].action = lastOp.arg[2].action
    /\ lastSignals[lastOp.sym][lastOp.arg[1]].strength # lastOp.arg[2].strength

HasSignal(evs) == \E i \in 1..Len(evs) : evs[i].type = "signal"

\* C12: a 'signal' event is broadcast only by a tick with closed = true of
\* the event's symbol that leaves at least 50 candles in the buffer; a tick
\* with closed = false, or one that leaves fewer than 50 candles, broadcasts
\* no 'signal' event and leaves the last-signal table as it was.
C12_SignalsOnlyOnClosedTicks ==
    [][/\ HasSignal(out') =>
            /\ lastOp'.op = "message"
            /\ lastOp'.arg[1].x
            /\ Has(candles', lastOp'.sym)
            /\ Len(candles'[lastOp'.sym]) >= 50
            /\ \A i \in 1..Len(out') :
                   out'[i].type = "signal" => out'[i].symbol = toUpperCase(lastOp'.sym)
       /\ (/\ lastOp'.op = "message"
           /\ \/ ~lastOp'.arg[1].x
              \/ ~Has(candles', lastOp'.sym)
              \/ Len(candles'[lastOp'.sym]) < 50) =>
            /\ ~HasSignal(out')
            /\ lastSignals' = lastSignals]_vars

\* C12's case has happened: a closed tick left 50 candles or more and a
\* 'signal' event was broadcast.
C12_ClosedTickSignalled ==
    /\ lastOp.op = "message"
    /\ lastOp.arg[1].x
    /\ Has(candles, lastOp.sym)
    /\ Len(candles[lastOp.sym]) >= 50
    /\ HasSignal(out)

Prices(evs) == {i \in 1..Len(evs) : evs[i].type = "price"}

\* C13: every tick delivered for a symbol whose last request is a subscribe
\* broadcasts exactly one 'price' event, with the tick's close, high, low,
\* volume and timestamp, whether the tick replaces the last candle, is
\* appended or is dropped.
C13_EveryTickBroadcastsPrice ==
    [][(lastOp'.op = "message" /\ Subscribed(lastOp'.sym)) =>
         LET k == lastOp'.arg[1]
         IN /\ Cardinality(Prices(out')) = 1
            /\ \A i \in Prices(out') :
                   /\ out'[i].symbol = toUpperCase(lastOp'.sym)
                   /\ out'[i].price = k.c
                   /\ out'[i].high = k.h
                   /\ out'[i].low = k.l
                   /\ out'[i].volume = k.v
                   /\ out'[i].time = k.t]_vars

\* C13's case has happened: a tick that was dropped by the aggregation rule
\* (closed = false, another timestamp than the last candle's) was broadcast
\* as a 'price' event.
C13_DroppedTickBroadcast ==
    /\ lastOp.op = "message"
    /\ Subscribed(lastOp.sym)
    /\ ~lastOp.arg[1].x
    /\ Has(candles, lastOp.sym)
    /\ Len(candles[lastOp.sym]) > 0
    /\ candles[lastOp.sym][Len(candles[lastOp.sym])].time # lastOp.arg[1].t
    /\ Cardinality(Prices(out)) = 1

\* C14: in every callback other than a connection, each registered session
\* that is open is written exactly the events broadcast by the callback,
\* once each and in order, and a session that is not open is written
\* nothing; a callback that broadcasts leaves the session set as it was.
C14_BroadcastReachesOpenSessions ==
    [][/\ DOMAIN sent' = DOMAIN clients'
       /\ lastOp'.op # "connect" =>
              \A c \in DOMAIN clients' :
                  sent'[c] = IF clients'[c] = "open" THEN out' ELSE <<>>
       /\ out' # <<>> => clients' = clients]_vars

\* C14's case has happened: an event was broadcast while one session was
\* open, which received it, and another was closing, which did not.
C14_ClosingSessionSkipped ==
    /\ out # <<>>
    /\ \E c, d \in DOMAIN clients :
           /\ clients[c] = "open" /\ sent[c] = out
           /\ clients[d] = "closing" /\ sent[d] = <<>>

\* C15: a viewer message that is not valid JSON leaves the engine running,
\* changes no per-symbol state, no feed and no session, and writes nothing
\* to any session.
C15_BadViewerJsonDiscarded ==
    [][lastOp'.op = "badjson" =>
          /\ running'
          /\ UNCHANGED <<binanceSockets, candles, activeStrategies, lastSignals,
                         feeds, clients>>
          /\ out' = <<>>
          /\ \A c \in DOMAIN sent' : sent'[c] = <<>>]_vars

\* C16: an upstream frame that is not valid JSON, or that has no candle
\* payload, changes nothing: candles, last signals, handles, feeds and
\* sessions stay as they were, the engine keeps running and no event is
\* broadcast, so that the feed handles the next tick as it would have.
C16_UpstreamGarbageDiscarded ==
    [][lastOp'.op = "garbage" =>
          /\ UNCHANGED <<binanceSockets, candles, activeStrategies, lastSignals,
                         feeds, running, clients, emitted, nTicks, inbox>>
          /\ out' = <<>>
          /\ \A c \in DOMAIN sent' : sent'[c] = <<>>]_vars

\* C16's case has happened: a frame that is no JSON text arrived on the open
\* feed of a subscribed symbol that had taken a tick, with a session open.
C16_GarbageOnLiveFeed ==
    /\ lastOp.op = "garbage"
    /\ ~lastOp.arg[1].json
    /\ nTicks > 0
    /\ Subscribed(lastOp.sym)
    /\ FeedCount(feeds, lastOp.sym, {"open"}) = 1
    /\ Has(candles, lastOp.sym) /\ Len(candles[lastOp.sym]) > 0
    /\ \E c \in DOMAIN clients : clients[c] = "open"

\* C17: a seed fetch that fails leaves the engine running with an empty
\* candle history for the symbol and goes on to open the upstream socket;
\* the first tick then delivered to the empty history is buffered and
\* broadcast as a 'price' event.
C17_FetchFailureOpensEmptyFeed ==
    [][/\ (lastOp'.op = "fetched" /\ ~lastOp'.arg[1]) =>
            /\ running'
            /\ Has(candles', lastOp'.sym)
            /\ candles'[lastOp'.sym] = <<>>
            /\ FeedCount(feeds', lastOp'.sym, {"connecting"})
                   = FeedCount(feeds, lastOp'.sym, {"connecting"}) + 1
            /\ FeedCount(feeds', lastOp'.sym, {"fetching"})
                   = FeedCount(feeds, lastOp'.sym, {"fetching"}) - 1
            /\ UNCHANGED <<binanceSockets, activeStrategies, lastSignals>>
       /\ (/\ lastOp'.op = "message"
           /\ Has(candles, lastOp'.sym)
           /\ candles[lastOp'.sym] = <<>>) =>
            /\ candles'[lastOp'.sym] = <<CandleOf(lastOp'.arg[1])>>
            /\ Cardinality(Prices(out')) = 1]_vars

\* C17's case has happened: after a failed seed fetch the socket of a
\* subscribed symbol is open and its first tick is the one candle buffered.
C17_TickAfterFailedFetch ==
    /\ lastOp.op = "message"
    /\ Subscribed(lastOp.sym)
    /\ FeedCount(feeds, lastOp.sym, {"open"}) >= 1
    /\ Has(candles, lastOp.sym)
    /\ candles[lastOp.sym] = <<CandleOf(lastOp.arg[1])>>
    /\ Cardinality(Prices(out)) = 1

\* C18: the 'connected' message written to a session that connects lists
\* exactly the symbols whose last request is a subscribe, whatever the
\* stage of their feeds.
C18_SnapshotListsSubscribedSymbols ==
    lastOp.op = "connect" =>
        /\ Has(sent, lastOp.arg[1])
        /\ Len(sent[lastOp.arg[1]]) = 1
        /\ sent[lastOp.arg[1]][1].type = "connected"
        /\ sent[lastOp.arg[1]][1].symbols = {sym \in DOMAIN lastReq : Subscribed(sym)}

\* C19: the 'close' of a viewer session removes that session from the
\* session set and nothing else: the other sessions, and every symbol's
\* handle, candles, strategy set, last signals and feed, stay as they were,
\* and nothing is broadcast.
C19_DisconnectRemovesOnlySession ==
    [][lastOp'.op = "disconnect" =>
          /\ Has(clients, lastOp'.arg[1])
          /\ DOMAIN clients' = DOMAIN clients \ {lastOp'.arg[1]}
          /\ \A c \in DOMAIN clients' : clients'[c] = clients[c]
          /\ UNCHANGED <<binanceSockets, candles, activeStrategies, lastSignals,
                         feeds, running, lastReq>>
          /\ out' = <<>>]_vars

\* C19's case has happened: the last session has closed while a symbol is
\* subscribed and its upstream socket is open.
C19_LastViewerLeft ==
    /\ lastOp.op = "disconnect"
    /\ clients = EmptyObj
    /\ \E sym \in DOMAIN binanceSockets :
           /\ Subscribed(sym)
           /\ Has(candles, sym) /\ Has(activeStrategies, sym) /\ Has(lastSignals, sym)
           /\ FeedCount(feeds, sym, {"open"}) = 1

\* The position of a strategy in a list without repetitions.
StrategyIndex(strategies, name) ==
    CHOOSE i \in 1..Len(strategies) : strategies[i] = name

\* The events of one tick: the 'price' event first, then 'signal' events in
\* the order of the strategy list.
TickOrdered(evs, strategies) ==
    /\ Len(evs) >= 1
    /\ evs[1].type = "price"
    /\ \A i \in 2..Len(evs) :
           /\ evs[i].type = "signal"
           /\ \E k \in 1..Len(strategies) : strategies[k] = evs[i].strategy
    /\ \A i, j \in 2..Len(evs) :
           i < j => StrategyIndex(strategies, evs[i].strategy)
                        < StrategyIndex(strategies, evs[j].strategy)

\* What a session has received: ticks in the order of their delivery, and
\* within a tick the 'price' event before the signals, the signals in the
\* order of the strategy list.
InboxOrdered(box, strategies) ==
    \A i, j \in 1..Len(box) :
        i < j =>
            /\ box[i].n <= box[j].n
            /\ box[i].n = box[j].n =>
                   /\ box[j].type = "signal"
                   /\ box[i].type = "signal" =>
                          StrategyIndex(strategies, box[i].strategy)
                              < StrategyIndex(strategies, box[j].strategy)

\* C20: a tick of a subscribed symbol broadcasts its 'price' event first and
\* then its 'signal' events in the order of the symbol's strategy list,
\* every open session is written them in that order, and a session that
\* stays open has received all events of an earlier tick before any event
\* of a later one.
C20_EventsInProductionOrder ==
    /\ [](\A c \in DOMAIN inbox : InboxOrdered(inbox[c], GatewayStrategies))
    /\ [][(lastOp'.op = "message" /\ Subscribed(lastOp'.sym)) =>
             /\ TickOrdered(out', activeStrategies[lastOp'.sym])
             /\ \A c \in DOMAIN clients' :
                    clients'[c] = "open" => sent'[c] = out']_vars

\* C20's case has happened: an open session has received a tick's 'price'
\* event and two signals, and then the events of a later tick.
C20_TwoTicksReceived ==
    \E c \in DOMAIN inbox :
        /\ clients[c] = "open"
        /\ Len(inbox[c]) >= 4
        /\ inbox[c][1].type = "price"
        /\ inbox[c][2].type = "signal" /\ inbox[c][3].type = "signal"
        /\ inbox[c][1].n = inbox[c][3].n
        /\ inbox[c][4].n > inbox[c][3].n

\* The strategy table's minimum bar count of a strategy.
TableMinimum(strat) ==
    CASE strat = "sma_crossover" -> 30
      [] strat = "rsi" -> 15
      [] strat = "breakout" -> 21
      [] strat = "hft_momentum" -> 30
      [] strat = "linear_regression" -> 50

\* C21: an evaluator applied to a history shorter than its strategy's
\* minimum bar count (trend-cross 30, RSI 15, breakout 21,
\* microstructure-momentum 30, regression-trend 50) returns no signal.
C21_ShortHistoryGivesNoSignal ==
    \A sym \in DOMAIN candles :
        (lastOp.op = "run" /\ lastOp.sym = sym
            /\ Len(candles[sym]) < TableMinimum(lastOp.arg[1]))
        => lastOp.arg[2] = Null

\* C21's case has happened: the regression evaluator ran on 49 bars and
\* returned no signal.
C21_RegressionOnShortHistory ==
    \E sym \in DOMAIN candles :
        /\ lastOp.op = "run" /\ lastOp.sym = sym
        /\ lastOp.arg[1] = "linear_regression"
        /\ Len(candles[sym]) = TableMinimum("linear_regression") - 1
        /\ lastOp.arg[2] = Null

\* C22: a viewer's subscribe message that starts a subscription gives the
\* symbol the message's strategies list, and all five strategies
\* (trend-cross, RSI, breakout, microstructure-momentum, regression-trend)
\* when the message has no strategies field.
C22_SubscribeDefaultsToFiveStrategies ==
    [][(lastOp'.op = "subscribe" /\ Len(lastOp'.arg) = 2
           /\ ~Has(binanceSockets, lastOp'.sym)) =>
          /\ Has(activeStrategies', lastOp'.sym)
          /\ activeStrategies'[lastOp'.sym] =
                 IF "strategies" \in DOMAIN lastOp'.arg[2].msg
                 THEN lastOp'.arg[2].msg.strategies
                 ELSE <<"sma_crossover", "rsi", "breakout", "hft_momentum",
                        "linear_regression">>]_vars

\* C22's case has happened: a subscribe message without a strategies field
\* was dispatched and the symbol has five strategies.
C22_DefaultListSubscribed ==
    /\ lastOp.op = "subscribe" /\ Len(lastOp.arg) = 2
    /\ "strategies" \notin DOMAIN lastOp.arg[2].msg
    /\ Has(activeStrategies, lastOp.sym)
    /\ Len(activeStrategies[lastOp.sym]) = 5

\* The tick kline is dropped by a buffer cs: cs is not empty, its last
\* entry has another timestamp, and the tick is not closed.
Dropped(cs, kline) ==
    Len(cs) > 0 /\ cs[Len(cs)].time # kline.t /\ ~kline.x

\* C23: a tick with closed = false whose timestamp differs from the last
\* buffered entry's, arriving while the buffer is not empty, leaves the
\* candle buffers and the last-signal table exactly as they were.
C23_DroppedTickChangesNothing ==
    [][(lastOp'.op = "message" /\ Has(candles, lastOp'.sym)
           /\ Dropped(candles[lastOp'.sym], lastOp'.arg[1])) =>
          /\ candles' = candles
          /\ lastSignals' = lastSignals]_vars

\* C23's case has happened: a tick was dropped by a buffer of a symbol that
\* has a recorded signal.
C23_TickDroppedAfterSignal ==
    /\ lastOp.op = "message"
    /\ Has(candles, lastOp.sym)
    /\ Dropped(candles[lastOp.sym], lastOp.arg[1])
    /\ Has(lastSignals, lastOp.sym)
    /\ lastSignals[lastOp.sym] # EmptyObj

\* The positions of the candles with closed = false in a buffer.
OpenEntries(cs) == {i \in 1..Len(cs) : ~cs[i].closed}

\* C24: a candle buffer holds at most one candle with closed = false, that
\* candle is the last entry, and when the last entry is open and the buffer
\* has two entries or more the second-to-last entry is closed.
C24_OnlyLastCandleOpen ==
    \A sym \in DOMAIN candles :
        LET cs == candles[sym]
        IN /\ Cardinality(OpenEntries(cs)) <= 1
           /\ OpenEntries(cs) \subseteq {Len(cs)}
           /\ (Len(cs) >= 2 /\ ~cs[Len(cs)].closed) => cs[Len(cs) - 1].closed

\* C25: a tick leaves every candle with closed = true of its symbol's
\* buffer as it was, at its position, or one position earlier when the
\* tick was appended to a full buffer (whose first entry is evicted); a
\* tick with closed = false and the timestamp of a closed candle does not
\* reopen it.
C25_ClosedCandlesImmutable ==
    [][(lastOp'.op = "message" /\ Has(candles, lastOp'.sym)
           /\ Has(candles', lastOp'.sym)) =>
          LET cs == candles[lastOp'.sym]
              after == candles'[lastOp'.sym]
          IN \A i \in 1..Len(cs) :
                 cs[i].closed =>
                     \/ i <= Len(after) /\ after[i] = cs[i]
                     \/ /\ Len(cs) = KeepLast
                        /\ Appends(cs, lastOp'.arg[1])
                        /\ i = 1 \/ after[i - 1] = cs[i]]_vars

\* The last-signal entry of a (symbol, strategy) pair, <<>> when there is
\* none.
SignalEntry(ls, sym, strat) ==
    IF Has(ls, sym) /\ Has(ls[sym], strat) THEN <<ls[sym][strat]>> ELSE <<>>

\* The pairs that have an entry in a last-signal table.
SignalPairs(ls) == {<<sym, strat>> : sym \in DOMAIN ls, strat \in UNION {DOMAIN ls[s] : s \in DOMAIN ls}}

\* C26: the last-signal entry of a (symbol, strategy) pair changes only in
\* a step that broadcasts a 'signal' event of the pair or that unsubscribes
\* the symbol; a tick that emits nothing for the pair, an upstream close,
\* an automatic reconnect and a repeated subscribe leave it unchanged.
C26_LastSignalChangesOnlyOnEmit ==
    [][\A p \in SignalPairs(lastSignals) \cup SignalPairs(lastSignals') :
          SignalEntry(lastSignals', p[1], p[2]) # SignalEntry(lastSignals, p[1], p[2]) =>
              \/ \E i \in 1..Len(out') :
                     /\ out'[i].type = "signal"
                     /\ out'[i].symbol = toUpperCase(p[1])
                     /\ out'[i].strategy = p[2]
              \/ lastOp'.op = "unsubscribe" /\ lastOp'.sym = p[1]]_vars

\* C27: an upstream 'error' event changes no engine state (handles, candle
\* buffers, strategy sets, last-signal tables, feeds and their timers) and
\* broadcasts nothing; a reconnect is scheduled only by a 'close' event.
C27_ErrorAloneChangesNothing ==
    [][/\ lastOp'.op = "error" =>
            /\ UNCHANGED <<binanceSockets, candles, activeStrategies, lastSignals,
                           feeds, running, lastReq, clients>>
            /\ out' = <<>>
       /\ \A sym \in {feeds'[f].sym : f \in FeedIds} :
              FeedCount(feeds', sym, {"timer"}) > FeedCount(feeds, sym, {"timer"})
                  => lastOp'.op = "close" /\ lastOp'.sym = sym]_vars

\* C27's case has happened: the open socket of a subscribed symbol with a
\* recorded signal emitted 'error'.
C27_ErrorOnOpenFeed ==
    /\ lastOp.op = "error"
    /\ Has(binanceSockets, lastOp.sym)
    /\ feeds[binanceSockets[lastOp.sym]].stage = "open"
    /\ Has(lastSignals, lastOp.sym) /\ lastSignals[lastOp.sym] # EmptyObj
    /\ Has(candles, lastOp.sym) /\ Has(activeStrategies, lastOp.sym)

\* What the engine holds for a symbol: whether it has a handle and the
\* stage of the socket the handle names, its candle buffer, its strategy
\* set and its last-signal table.
SymbolState(sockets, fs, cs, strategies, ls, sym) ==
    [handle |-> IF Has(sockets, sym) THEN <<fs[sockets[sym]].stage>> ELSE <<>>,
     candles |-> Entry(cs, sym),
     activeStrategies |-> Entry(strategies, sym),
     lastSignals |-> Entry(ls, sym)]

\* The symbols the engine holds something for.
KnownSymbols ==
    DOMAIN binanceSockets \cup DOMAIN candles \cup DOMAIN activeStrategies
        \cup DOMAIN lastSignals

\* C28: a step that concerns one symbol (subscribe, unsubscribe, seed-fetch
\* completion, tick, upstream open, error, close, reconnect timer) leaves
\* the handle, the candle buffer, the strategy set and the last-signal
\* table of every other symbol unchanged.
C28_OtherSymbolsUntouched ==
    [][\A other \in KnownSymbols \ {lastOp'.sym} :
          SymbolState(binanceSockets', feeds', candles', activeStrategies',
                      lastSignals', other)
              = SymbolState(binanceSockets, feeds, candles, activeStrategies,
                            lastSignals, other)]_vars

\* C29: a closing tick delivered a second time to a subscribed symbol, with
\* the timestamp and the values of the last buffered entry, leaves the
\* candle buffers and the last-signal table unchanged and broadcasts no
\* 'signal' event: a breakout BUY is broadcast by the first delivery alone.
C29_RedeliveredTickIsSuppressed ==
    [][(/\ lastOp'.op = "message" /\ lastOp.op = "message"
        /\ lastOp'.sym = lastOp.sym /\ lastOp'.arg = lastOp.arg
        /\ lastOp'.arg[1].x
        /\ Subscribed(lastOp'.sym)
        /\ Has(candles, lastOp'.sym) /\ Len(candles[lastOp'.sym]) > 0
        /\ candles[lastOp'.sym][Len(candles[lastOp'.sym])] = CandleOf(lastOp'.arg[1])) =>
          /\ candles' = candles
          /\ lastSignals' = lastSignals
          /\ ~HasSignal(out')]_vars

\* C29's case has happened: the closing tick that had produced the breakout
\* BUY was delivered again, and nothing but its 'price' event was broadcast.
C29_BreakoutTickRedelivered ==
    /\ lastOp.op = "message" /\ lastOp.arg[1].x
    /\ nTicks = 2
    /\ Subscribed(lastOp.sym)
    /\ Has(candles, lastOp.sym) /\ Len(candles[lastOp.sym]) >= MinEvalBars
    /\ candles[lastOp.sym][Len(candles[lastOp.sym])] = CandleOf(lastOp.arg[1])
    /\ Has(lastSignals, lastOp.sym) /\ Has(lastSignals[lastOp.sym], "breakout")
    /\ lastSignals[lastOp.sym]["breakout"].action = "BUY"
    /\ Len(out) = 1

\* The number of buffered candles from which a strategy is said to produce
\* signals on a feed that started empty.
WarmUpBars(strat) ==
    CASE strat = "breakout" -> 21
      [] strat = "hft_momentum" -> 30
      [] OTHER -> 50

\* C30: after a closing tick of a subscribed symbol, every active strategy
\* whose minimum (21 for breakout, 30 for microstructure-momentum, 50 for
\* the others) the buffer has reached was evaluated: its signal, the first
\* of the subscription if there was none, is in the last-signal table.
C30_StrategyRunsFromItsOwnMinimum ==
    \A sym \in DOMAIN candles :
        (/\ lastOp.op = "message" /\ lastOp.sym = sym /\ lastOp.arg[1].x
         /\ Subscribed(sym)
         /\ Has(activeStrategies, sym) /\ Has(lastSignals, sym)) =>
            \A i \in 1..Len(activeStrategies[sym]) :
                Len(candles[sym]) >= WarmUpBars(activeStrategies[sym][i])
                    => Has(lastSignals[sym], activeStrategies[sym][i])

\* C31: an evaluator applied to a history of at least its strategy's
\* minimum bar count (trend-cross 30, RSI 15, breakout 21,
\* microstructure-momentum 30, regression-trend 50) returns BUY, SELL or
\* HOLD, not none.
C31_LongEnoughHistoryGivesResult ==
    \A sym \in DOMAIN candles :
        (lastOp.op = "run" /\ lastOp.sym = sym
            /\ Len(candles[sym]) >= TableMinimum(lastOp.arg[1]))
        => lastOp.arg[2].action \in {"BUY", "SELL", "HOLD"}

\* The result of the evaluator run that produced the present state.
Ran(strat, sym) == lastOp.op = "run" /\ lastOp.sym = sym /\ lastOp.arg[1] = strat
Result == lastOp.arg[2]

\* The 20 bars before the latest of a buffer of at least 21 bars.
PriorBars(cs) == SubSeq(cs, Len(cs) - 20, Len(cs) - 1)
PriorHigh(cs) == MaxOf({PriorBars(cs)[i].high : i \in 1..20})
PriorLow(cs) == MinOf({PriorBars(cs)[i].low : i \in 1..20})

\* C32: every signal an evaluator returns has a strength between 0 and 100
\* inclusive; a breakout above 20 prior bars of zero range has strength 100.
C32_StrengthWithinBounds ==
    \A sym \in DOMAIN candles :
        (lastOp.op = "run" /\ lastOp.sym = sym /\ Result.action # "none") =>
            /\ Result.strength[2] > 0
            /\ Result.strength[1] >= 0
            /\ Result.strength[1] <= 100 * Result.strength[2]
            /\ (/\ lastOp.arg[1] = "breakout"
                /\ PriorHigh(candles[sym]) = PriorLow(candles[sym])
                /\ candles[sym][Len(candles[sym])].close > PriorHigh(candles[sym]))
               => Result = [action |-> "BUY", strength |-> <<100, 1>>]

\* The breakout evaluator has run on a buffer whose 20 prior bars have
\* zero range and whose latest close is above them.
C32_BreakoutAboveZeroRange ==
    \E sym \in DOMAIN candles :
        /\ Ran("breakout", sym)
        /\ Len(candles[sym]) >= 21
        /\ PriorHigh(candles[sym]) = PriorLow(candles[sym])
        /\ candles[sym][Len(candles[sym])].close > PriorHigh(candles[sym])
        /\ Result.action = "BUY"

\* C33: the breakout evaluator compares the latest close with the highest
\* high and the lowest low of the 20 bars before the latest: BUY only if
\* the close is strictly above that high, SELL only if strictly below that
\* low, and HOLD when the close equals either of them.
C33_BreakoutIsStrict ==
    \A sym \in DOMAIN candles :
        (Ran("breakout", sym) /\ Len(candles[sym]) >= 21) =>
            LET close == candles[sym][Len(candles[sym])].close
            IN /\ Result.action = "BUY" => close > PriorHigh(candles[sym])
               /\ Result.action = "SELL" => close < PriorLow(candles[sym])
               /\ (close = PriorHigh(candles[sym]) \/ close = PriorLow(candles[sym]))
                      => Result.action = "HOLD"

\* The breakout evaluator has run on a rising buffer whose latest close
\* equals the highest high of the 20 bars before it.
C33_CloseTouchesPriorHigh ==
    \E sym \in DOMAIN candles :
        /\ Ran("breakout", sym)
        /\ Len(candles[sym]) >= 21
        /\ candles[sym][Len(candles[sym])].close = PriorHigh(candles[sym])
        /\ PriorHigh(candles[sym]) > PriorLow(candles[sym])
        /\ Result.action = "HOLD"

\* Thirty times the `period`-bar average of the closes that end with bar
\* `last` of a buffer: the averages of 10 and of 30 bars compare as these
\* integers do.
Average30(cs, last, period) ==
    (30 \div period) * SumOf([i \in 1..period |-> cs[last - period + i].close])

\* The 10-bar average is at or below the 30-bar average on the bar before
\* the latest and strictly above it on the latest one.
CrossesUp(cs) ==
    /\ Len(cs) >= 31
    /\ Average30(cs, Len(cs) - 1, 10) <= Average30(cs, Len(cs) - 1, 30)
    /\ Average30(cs, Len(cs), 10) > Average30(cs, Len(cs), 30)

CrossesDown(cs) ==
    /\ Len(cs) >= 31
    /\ Average30(cs, Len(cs) - 1, 10) >= Average30(cs, Len(cs) - 1, 30)
    /\ Average30(cs, Len(cs), 10) < Average30(cs, Len(cs), 30)

\* C34: when the 10-bar average of the closes is at or below the 30-bar
\* average on the second-to-last bar and strictly above it on the last
\* bar, the trend-cross evaluator returns BUY; in the mirrored case it
\* returns SELL.
C34_CrossGivesBuyOrSell ==
    \A sym \in DOMAIN candles :
        Ran("sma_crossover", sym) =>
            /\ CrossesUp(candles[sym]) => Result.action = "BUY"
            /\ CrossesDown(candles[sym]) => Result.action = "SELL"

\* The trend-cross evaluator has run on closes whose averages were equal
\* on the bar before the latest and whose 10-bar average is now above the
\* 30-bar one by less than the 0.2% of a confirmed trend.
C34_CrossWithinTrendBand ==
    \E sym \in DOMAIN candles :
        /\ Ran("sma_crossover", sym)
        /\ CrossesUp(candles[sym])
        /\ 1000 * Average30(candles[sym], Len(candles[sym]), 10)
               <= 1002 * Average30(candles[sym], Len(candles[sym]), 30)
        /\ Result.action = "BUY"

\* Every close of the buffer is above the one before it.
AllDiffsPositive(cs) == \A i \in 2..Len(cs) : cs[i].close > cs[i - 1].close

\* C35: on at least 15 closes whose consecutive differences are all
\* positive the RSI is 100 and the RSI evaluator returns SELL with strength
\* 90, never BUY.
C35_RisingClosesGiveSell ==
    \A sym \in DOMAIN candles :
        (Ran("rsi", sym) /\ Len(candles[sym]) >= 15 /\ AllDiffsPositive(candles[sym])) =>
            /\ rsi(Closes(candles[sym]), RsiPeriod) = <<100, 1>>
            /\ Result = [action |-> "SELL", strength |-> <<90, 1>>]

\* The RSI evaluator has run on 15 or more strictly rising closes.
C35_RsiOnRisingCloses ==
    \E sym \in DOMAIN candles :
        /\ Ran("rsi", sym)
        /\ Len(candles[sym]) >= 15
        /\ AllDiffsPositive(candles[sym])
        /\ Result.action = "SELL"

\* Every close of the buffer equals the first.
AllClosesEqual(cs) == \A i \in 1..Len(cs) : cs[i].close = cs[1].close

\* C39: on at least 15 candles whose closes are all equal there are no
\* gains and no losses; the average loss is 0, so the RSI is taken as 100
\* and the RSI evaluator returns SELL with strength 90, not HOLD.
C39_FlatClosesGiveSell ==
    \A sym \in DOMAIN candles :
        (Ran("rsi", sym) /\ Len(candles[sym]) >= 15 /\ AllClosesEqual(candles[sym])) =>
            /\ rsi(Closes(candles[sym]), RsiPeriod) = <<100, 1>>
            /\ Result.action # "HOLD"
            /\ Result = [action |-> "SELL", strength |-> <<90, 1>>]

\* The RSI evaluator has run on 15 or more equal closes.
C39_RsiOnFlatCloses ==
    \E sym \in DOMAIN candles :
        /\ Ran("rsi", sym)
        /\ Len(candles[sym]) >= 15
        /\ AllClosesEqual(candles[sym])
        /\ Result.action = "SELL"

\* The deviation of the latest close from the volume-weighted average
\* price of the last 30 bars, in percent.
VwapDeviation(cs) ==
    LET vw == vwap(LastOf(cs, 30))
    IN RMul(RDiv(RSub(RInt(cs[Len(cs)].close), vw), vw), RInt(100))

\* The sum of the close-to-close changes over the last 10 bars.
TickMomentum(cs) == cs[Len(cs)].close - cs[Len(cs) - 9].close

\* The latest volume is at least 1.3 times the average volume of the 29
\* bars before it.
VolumeSurge(cs) ==
    10 * 29 * cs[Len(cs)].volume
        >= 13 * SumOf([i \in 1..29 |-> cs[Len(cs) - 30 + i].volume])

\* C36: the microstructure-momentum evaluator returns BUY exactly when the
\* close is more than 0.15% below the 30-bar VWAP, the tick momentum of the
\* last 10 bars is strictly positive and the volume is at least 1.3 times
\* the trailing average; SELL exactly when the close is more than 0.15%
\* above the VWAP, the tick momentum strictly negative and the volume at
\* least 1.3 times the average; HOLD otherwise.  A zero tick momentum
\* never gives SELL.
C36_MomentumSignalExactly ==
    \A sym \in DOMAIN candles :
        (Ran("hft_momentum", sym) /\ Len(candles[sym]) >= 30) =>
            LET cs == candles[sym]
                buy == /\ RLess(VwapDeviation(cs), Rat(-15, 100))
                       /\ TickMomentum(cs) > 0
                       /\ VolumeSurge(cs)
                sell == /\ RLess(Rat(15, 100), VwapDeviation(cs))
                        /\ TickMomentum(cs) < 0
                        /\ VolumeSurge(cs)
            IN /\ Result.action = "BUY" <=> buy
               /\ Result.action = "SELL" <=> sell
               /\ Result.action = "HOLD" <=> (~buy /\ ~sell)
               /\ TickMomentum(cs) = 0 => Result.action # "SELL"

\* The symbol has its strategy set, its candle buffer and its last-signal
\* table, and the socket its handle names is open.
HandleIsSound(sockets, fs, cs, strategies, ls, sym) ==
    /\ Has(strategies, sym) /\ Has(cs, sym) /\ Has(ls, sym)
    /\ fs[sockets[sym]].stage = "open"

\* C37: whenever a handle is recorded for a symbol, the symbol is
\* subscribed (strategy set, candle buffer and last-signal table exist)
\* and the handle names an open connection; and the 'close' event of an
\* older connection of a symbol, one that unsubscribe closed, does not
\* remove the handle that a newer connection of the symbol has recorded.
C37_HandleBelongsToOpenConnection ==
    [][/\ \A sym \in DOMAIN binanceSockets' :
              HandleIsSound(binanceSockets', feeds', candles', activeStrategies',
                            lastSignals', sym)
       /\ (/\ lastOp'.op = "close"
           /\ Has(binanceSockets, lastOp'.sym)
           /\ FeedCount(feeds', lastOp'.sym, {"closing"})
                  < FeedCount(feeds, lastOp'.sym, {"closing"}))
          => Has(binanceSockets', lastOp'.sym)]_vars

Slashed == <<"B", "T", "C", "/", "U", "S", "D", "T">>
Plain == <<"b", "t", "c", "u", "s", "d", "t">>

\* C38: subscribe and unsubscribe take 'BTC/USDT' and 'btcusdt' for the
\* same symbol.  subscribe('BTC/USDT') followed by subscribe('btcusdt')
\* leaves one feed and one bundle of state: the second call starts no
\* connection attempt, and candles, strategies and last signals have the
\* one key 'btcusdt'.  unsubscribe with either spelling removes the
\* bundle and the handle of a connected feed.
C38_SpellingsNameOneSymbol ==
    [][/\ (/\ lastOp.op = "subscribe" /\ lastOp.arg = <<Slashed>>
           /\ lastOp'.op = "subscribe" /\ lastOp'.arg = <<Plain>>) =>
              /\ FeedCount(feeds', Plain, Attempt) = FeedCount(feeds, Plain, Attempt)
              /\ FeedCount(feeds', Plain, Attempt) = 1
              /\ DOMAIN candles' = {Plain}
              /\ DOMAIN activeStrategies' = {Plain}
              /\ DOMAIN lastSignals' = {Plain}
       /\ (lastOp'.op = "unsubscribe" /\ Has(binanceSockets, Plain)) =>
              /\ lastOp'.arg[1] \in {Slashed, Plain}
              /\ FeedCount(feeds', Plain, {"open"}) < FeedCount(feeds, Plain, {"open"})
              /\ ~Has(binanceSockets', Plain) /\ ~Has(candles', Plain)
              /\ ~Has(activeStrategies', Plain) /\ ~Has(lastSignals', Plain)]_vars

\* The user who owns the trade a row belongs to.
RowOwner(d, row) ==
    IF row.table = "trades" THEN row.user_id ELSE d.trades[row.trade_id].user_id

\* What the database holds of the trades that user u does not own: the
\* trades, their executions, market conditions and screenshots, and the
\* files of those screenshots.
OthersData(d, u) ==
    LET theirs == {t \in DOMAIN d.trades : d.trades[t].user_id # u}
        shots == Keep(d.screenshots, OfTrades(d.screenshots, theirs))
    IN [trades |-> Keep(d.trades, theirs),
        executions |-> Keep(d.executions, OfTrades(d.executions, theirs)),
        conditions |-> Keep(d.conditions, theirs),
        screenshots |-> shots,
        files |-> {shots[s].image_path : s \in DOMAIN shots} \cap d.files]

\* C40: a request of an authenticated user u to a trade-scoped route
\* (trade read, update and delete, execution log, market conditions,
\* screenshots) returns no row of a trade that another user owns, and
\* leaves the stored data of the other users' trades as it was.
C40_OtherUsersTradesAreIsolated ==
    [][res'.user \in Users =>
         /\ \A row \in res'.body : RowOwner(db', row) = res'.user
         /\ OthersData(db', res'.user) = OthersData(db, res'.user)]_vars

====
